---------------------------- MODULE Spec2Model ----------------------------
(***************************************************************************)
(* A model of the PhysicsFS virtual file system engine (physfs.c and the   *)
(* DIR archiver), one drive (dv) at a time.                                *)
(*                                                                         *)
(* C strings are sequences of one-character strings; the terminating NUL   *)
(* is the token NUL, which only appears inside buffers.                    *)
(***************************************************************************)
EXTENDS Integers, Sequences, FiniteSets, TLC

\* ------------------------------------------------------------------ bounds
\* Longest input string given to the sanitizer in SpecSanitize.
MaxLen == 6
\* Most bytes handed to writeBytes in one run of SpecFile.
MaxBytes == 3
\* Most DirHandles allocated at one time in SpecMount.
MaxDH == 3
\* Most file handles open at one time in SpecMount.
MaxFH == 2
\* Most handles open in one list of one drive in SpecDrives.
MaxOpen == 1
\* Most entries of the DirTree, the root among them, in SpecTree.
MaxEnt == 6

\* --------------------------------------------------------------- variables
VARIABLES
    \* the sanitizer on its own
    sanIn,      \* the string handed to the sanitizer
    sanRes,     \* its result, or NotRun
    \* one file handle on one Io stream
    disk,       \* the bytes of the backing file, as the Io sees them
    iopos,      \* the Io's cursor (io->tell)
    fh,         \* the FileHandle: mode, forReading, buffer, bufsize, buffill, bufpos
    ioFull,     \* whether the Io accepts every write in full
    expect,     \* the bytes the caller has been told were written, at their offsets
    lpos,       \* the caller's logical position in the file
    nextByte,   \* the number of bytes handed to writeBytes so far
    fret,       \* the last file operation and what it returned
    \* the mount stack and the open lists of one drive
    initialized,    \* initialized[dv]
    searchPath,     \* searchPath[dv]: the DirHandles head to tail
    dhs,            \* the DirHandles on the heap, by address
    writeDir,       \* writeDir[dv]: the address of a DirHandle, or 0 for NULL
    openReadList,   \* openReadList[dv], head first
    openWriteList,  \* openWriteList[dv], head first
    allowSymLinks,  \* allowSymLinks[dv]
    err,            \* the error code the last call set for its thread, OK for none
    ret,            \* the last call on the drive, its arguments and what it returned
    calls,          \* the names the last call handed to the archiver
    made,           \* what mkdir, openWrite and delete have made of the names they can change
    \* the drives of the process
    multi_initialized,  \* multi_initialized
    drive,              \* the per-drive statics, by dv
    dret,               \* the last call on a drive: dv, the operation, its result
    chosen,             \* by dv: whether the last PHYSFS_setAllocator that succeeded
                        \* on the drive gave an allocator (kept by SpecBoot only)
    \* the threads of one initialized drive and its error list
    errorStates,    \* errorStates[dv]: the addresses of the ErrStates, head first
    errHeap,        \* the ErrStates on the heap, by address: tid and code
    errorLock,      \* the thread that holds errorLock[dv], or NoThread
    tpc,            \* where each thread is in its call
    ttop,           \* the public call each thread is in
    targ,           \* errcode of the PHYSFS_setErrorCode each thread is in
    terr,           \* each thread's local err: an address, or 0 for NULL
    tret,           \* what each thread's last call returned
    pend,           \* each thread's last code stored since its last get
    pendAll,        \* each thread's last code passed since its last get
    tcont,          \* where each thread goes on when its error routine returns
    \* the threads inside the calls that take stateLock[dv]
    stateLock,      \* the thread that holds stateLock[dv], or NoThread
    tcall,          \* the public call each thread is in
    acc,            \* the last access to the drive's state or the freeing of its error list
    \* one DirTree
    dt,             \* the __PHYSFS_DirTree: root, hash, the entries by address
    dtret           \* the last call on the tree and what it returned

sanVars == <<sanIn, sanRes, dt, dtret>>
fileVars == <<disk, iopos, fh, ioFull, expect, lpos, nextByte, fret>>
mountVars == <<initialized, searchPath, dhs, writeDir, openReadList, openWriteList,
               allowSymLinks, err, ret, calls, made>>
driveVars == <<multi_initialized, drive, dret, chosen>>
errVars == <<errorStates, errHeap, errorLock, tpc, ttop, targ, terr, tret, pend, pendAll,
             tcont>>
lockVars == <<stateLock, tcall, acc>>
otherVars == <<driveVars, errVars, lockVars>>
vars == <<sanVars, fileVars, mountVars, otherVars>>

\* ------------------------------------------------------------- characters
NUL == "NUL"
\* The value of a buffer cell nobody has written yet.
GARBAGE == "?"
\* The characters the sanitizer tells apart, and one ordinary character.
Chars == {"a", ".", "/", ":", "\\"}

RECURSIVE StringsUpTo(_)
StringsUpTo(n) ==
    IF n = 0 THEN {<<>>}
    ELSE LET shorter == StringsUpTo(n - 1)
         IN shorter \cup {Append(s, c) : s \in {t \in shorter : Len(t) = n - 1}, c \in Chars}

\* *p for a C string s and a 1-based index i: the NUL at the end included.
CharAt(s, i) == IF i <= Len(s) THEN s[i] ELSE NUL

\* The C string that starts at index p of buffer buf: the cells up to the
\* first NUL.
RECURSIVE CStr(_, _)
CStr(buf, p) ==
    IF p > Len(buf) \/ buf[p] = NUL THEN <<>>
    ELSE <<buf[p]>> \o CStr(buf, p + 1)

\* while (*src == '/') src++;
RECURSIVE SkipSlashes(_, _)
SkipSlashes(s, i) == IF CharAt(s, i) = "/" THEN SkipSlashes(s, i + 1) ELSE i

\* while (*src == '/') src++;  as used after a separator ("chop out doubles")
ChopDoublesNot(s, i) == i
ChopDoubles(s, i) == SkipSlashes(s, i)

DOT == <<".">>
DOTDOT == <<".", ".">>

\* strcmp(prev, ".") == 0 || strcmp(prev, "..") == 0
IsDotOrDotDot(str) == str = DOT \/ str = DOTDOT

\* The segment check made at a path separator.
SegmentCheckAtSep(buf, prev) == IsDotOrDotDot(CStr(buf, prev))

\* The result of sanitizePlatformIndependentPath: ok, the C string left in
\* dst, and the highest index of dst that was written (0: none).
SanFail == [ok |-> FALSE, out |-> <<>>, wr |-> 0, buf |-> <<>>]

\* The do ... while loop of sanitizePlatformIndependentPath: i is src, d is
\* dst, prev is prev (1-based indices), wr the highest index written.
RECURSIVE SanLoop(_, _, _, _, _, _)
SanLoop(s, i, buf, d, prev, wr) ==
    LET ch == CharAt(s, i)
        i1 == i + 1
    IN  IF ch = ":" \/ ch = "\\" THEN SanFail
        ELSE IF ch = "/"
        THEN LET buf1 == [buf EXCEPT ![d] = NUL]
                 wr1 == IF d > wr THEN d ELSE wr
                 i2 == ChopDoubles(s, i1)
             IN  IF SegmentCheckAtSep(buf1, prev) THEN SanFail
                 ELSE IF CharAt(s, i2) = NUL
                 THEN [ok |-> TRUE, out |-> CStr(buf1, 1), wr |-> wr1, buf |-> buf1]
                 ELSE SanLoop(s, i2, [buf1 EXCEPT ![d] = ch], d + 1, d + 1, wr1)
        ELSE LET buf2 == [buf EXCEPT ![d] = ch]
                 wr2 == IF d > wr THEN d ELSE wr
             IN  IF ch = NUL
                 THEN [ok |-> TRUE, out |-> CStr(buf2, 1), wr |-> wr2, buf |-> buf2]
                 ELSE SanLoop(s, i1, buf2, d + 1, prev, wr2)

\* sanitizePlatformIndependentPath(src, dst): dst is a buffer of
\* strlen(src) + 1 cells with undefined contents.
sanitizePlatformIndependentPath(src) ==
    LET i0 == SkipSlashes(src, 1)
        body == SubSeq(src, i0, Len(src))
        dst == [k \in 1..(Len(src) + 1) |-> GARBAGE]
    IN  IF IsDotOrDotDot(body) THEN SanFail
        ELSE SanLoop(src, i0, dst, 1, 1, 0)

NotRun == [ok |-> FALSE, out |-> <<>>, wr |-> -1, buf |-> <<>>]


\* ============================================================ mount stack
\* A cell of the heap that holds no DirHandle.  A DirHandle's mountPoint is
\* never the empty string, so <<>> stands for the NULL mountPoint ("/").
NoDirHandle == [live |-> FALSE, dirName |-> "", mountPoint |-> <<>>]

\* No call made yet.  Of a call the model keeps its name, what it returned
\* and its argument, and what happened inside it: probe tells how far
\* openDirectory got, claimed that an archiver claimed the source, arcerr the
\* error of an archiver that failed ("OK": none did), oom that an allocation
\* of the call returned NULL, io which Io a mount was given, and filetype
\* the file type a stat reported.
NoCall == [op |-> "none", ok |-> TRUE, arg |-> <<>>, flag |-> FALSE, served |-> 0, fid |-> 0,
           passed |-> <<>>, probe |-> "none", claimed |-> FALSE, arcerr |-> "OK",
           oom |-> FALSE, io |-> "none", filetype |-> "none",
           stopAt |-> 0, how |-> "none", gone |-> <<>>, list |-> <<>>]

\* "dt->hashBuckets = 64"
hashBuckets == 64

\* A __PHYSFS_DirTreeEntry set to zero, and the __PHYSFS_DirTree before
\* __PHYSFS_DirTreeInit: entries are named by their address, 0 is NULL; n is
\* the number of entries allocated, err the error code of the thread and
\* failIn the Malloc from now that returns NULL (0: none).
NoEntry == [name |-> <<>>, isdir |-> FALSE, hashnext |-> 0, sibling |-> 0, children |-> 0]
NoTree ==
    [root |-> 0, hash |-> [b \in 0..(hashBuckets - 1) |-> 0],
     ent |-> [i \in 1..MaxEnt |-> NoEntry], n |-> 0, err |-> "OK", failIn |-> 0]
NoTreeCall == [op |-> "none", name |-> <<>>, isdir |-> FALSE, res |-> 0, passed |-> <<>>]
TreeIdle == dt = NoTree /\ dtret = NoTreeCall

\* The names of the directory that the calls of the write side can change:
\* the file f, and x, x/y and x/y/c, which are not there at first.
Changeable == { <<"f">>, <<"x">>, <<"x", "/", "y">>, <<"x", "/", "y", "/", "c">> }
Unmade == [n \in Changeable |-> IF n = <<"f">> THEN "file" ELSE "missing"]

\* The drive as the one-time initialization of PHYSFS_init leaves it.
MountIdle ==
    /\ initialized = FALSE
    /\ searchPath = <<>>
    /\ dhs = [i \in 1..MaxDH |-> NoDirHandle]
    /\ writeDir = 0
    /\ openReadList = <<>>
    /\ openWriteList = <<>>
    /\ allowSymLinks = FALSE
    /\ err = "OK"
    /\ ret = NoCall
    /\ calls = {}
    /\ made = Unmade

\* ================================================================ drives
\* The drives dv of the process (NUM_DRIVES of them).
Drives == {1, 2}

\* The statics of one drive as the program starts, and as the one-time
\* initialization of PHYSFS_init sets them: allocator[dv] is not among the
\* statics that initialization sets.
ZeroDrive ==
    [initialized |-> FALSE, errorStates |-> "OK", searchPath |-> <<>>, writeDir |-> "",
     openWriteList |-> 0, openReadList |-> 0, allowSymLinks |-> FALSE,
     locks |-> FALSE, externalAllocator |-> FALSE, allocator |-> "none",
     baseDir |-> FALSE]

\* No call yet.  A call's record: the drive, the operation, what it returned
\* (code: the value of PHYSFS_getLastErrorCode), the argv0 PHYSFS_init was
\* given and whether it could derive a base dir, and whether the process
\* ended in the call.
NoDriveCall == [dv |-> 0, op |-> "none", ok |-> TRUE, code |-> "OK", argv0 |-> "none",
                base |-> FALSE, ended |-> FALSE]

\* The process before any call.
DrivesIdle ==
    /\ multi_initialized = FALSE
    /\ drive = [d \in Drives |-> ZeroDrive]
    /\ dret = NoDriveCall
    /\ chosen = [d \in Drives |-> FALSE]

\* ------------------------------------------------------------- threads
Threads == {"A", "B"}
NoThread == "none"
\* The codes a thread passes to PHYSFS_setErrorCode.
ErrorCodes == {"OK", "X", "Y"}
NoThreadCall == [op |-> "none", val |-> "OK", own |-> "OK", ownAll |-> "OK"]

ErrIdle ==
    /\ errorStates = <<>>
    /\ errHeap = <<>>
    /\ errorLock = NoThread
    /\ tpc = [t \in Threads |-> "idle"]
    /\ ttop = [t \in Threads |-> "none"]
    /\ targ = [t \in Threads |-> "OK"]
    /\ terr = [t \in Threads |-> 0]
    /\ tret = [t \in Threads |-> NoThreadCall]
    /\ pend = [t \in Threads |-> "OK"]
    /\ pendAll = [t \in Threads |-> "OK"]
    /\ tcont = [t \in Threads |-> "idle"]

NoAccess == [item |-> "none", write |-> FALSE, held |-> TRUE]

LocksIdle ==
    /\ stateLock = NoThread
    /\ tcall = [t \in Threads |-> "none"]
    /\ acc = NoAccess

\* The drive the threads call on, after its PHYSFS_init.
TheDrive == 1
DriveReady ==
    /\ multi_initialized = TRUE
    /\ drive = [d \in Drives |->
                   IF d = TheDrive
                   THEN [ZeroDrive EXCEPT !.initialized = TRUE, !.locks = TRUE,
                                          !.allocator = "default", !.baseDir = TRUE]
                   ELSE ZeroDrive]
    /\ dret = NoDriveCall
    /\ chosen = [d \in Drives |-> FALSE]

OtherIdle == DrivesIdle /\ ErrIdle /\ LocksIdle

\* ============================================================ file handles
\* A FileHandle as memset to zero by openRead / doOpenWrite; mode is the
\* handle's place in its life: "none", "w", "wclosed", "r", "rclosed".
\* oom records that a setBuffer on this handle failed to allocate.
NewHandle(mode, reading) ==
    [mode |-> mode, forReading |-> reading, hasBuf |-> FALSE, buffer |-> <<>>,
     bufsize |-> 0, buffill |-> 0, bufpos |-> 0, oom |-> FALSE]

NoRet == [op |-> "none", ok |-> TRUE, rv |-> 0, pos |-> 0, at |-> 0, want |-> 0,
          data |-> <<>>]

FileIdle ==
    /\ disk = <<>>
    /\ iopos = 0
    /\ fh = NewHandle("none", FALSE)
    /\ ioFull = TRUE
    /\ expect = <<>>
    /\ lpos = 0
    /\ nextByte = 0
    /\ fret = NoRet

\* The cells lo+1 .. hi of d (0-based half-open [lo, hi)), empty when hi <= lo.
Slice(d, lo, hi) == [i \in 1..(IF hi > lo THEN hi - lo ELSE 0) |-> d[lo + i]]

Min(a, b) == IF a < b THEN a ELSE b
Max(a, b) == IF a > b THEN a ELSE b

\* data written over d at offset pos (0-based); a gap reads as 0.
Overwrite(d, pos, data) ==
    [i \in 1..Max(Len(d), pos + Len(data)) |->
        IF i > pos /\ i <= pos + Len(data) THEN data[i - pos]
        ELSE IF i <= Len(d) THEN d[i] ELSE 0]

\* The byte counts an Io may return from write(n): n when it accepts every
\* write in full, else an error (-1), one byte short (0 when n = 1) or n.
Accept(n) == IF ioFull THEN {n} ELSE {-1, n - 1, n}

\* io->write(io, data, len) returning k.
IoWrite(S, data, k) ==
    IF k <= 0 THEN S
    ELSE [S EXCEPT !.disk = Overwrite(S.disk, S.iopos, Slice(data, 0, k)),
                   !.iopos = S.iopos + k]

\* io->read(io, buf, n): the Io hands out at most r bytes per call.
IoReadCount(S, n, r) == Min(Min(n, r), Max(Len(S.disk) - S.iopos, 0))

\* io->seek(io, pos): the Io takes every offset it can represent; a negative
\* pos stands for the PHYSFS_uint64 it wraps to, which no Io can seek to.
IoSeekOk(S, pos) == pos >= 0

\* PHYSFS_tell
PHYSFS_tell(h, pos) ==
    IF h.forReading THEN (pos - h.buffill) + h.bufpos ELSE pos + h.buffill

\* Whether PHYSFS_flush has bytes to send.
FlushPending(h) == ~h.forReading /\ h.bufpos # h.buffill

\* PHYSFS_flush with the Io returning k from its write.  The short count is
\* the test of the code: rc <= 0 fails, every other count succeeds.
FlushFails(n, k) == k <= 0

PHYSFS_flush(S, k) ==
    IF ~FlushPending(S.fh) THEN [s |-> S, ok |-> TRUE]
    ELSE LET h == S.fh
             n == h.buffill - h.bufpos
             S1 == IoWrite(S, Slice(h.buffer, h.bufpos, h.buffill), k)
         IN  IF FlushFails(n, k) THEN [s |-> S1, ok |-> FALSE]
             ELSE [s |-> [S1 EXCEPT !.fh.bufpos = 0, !.fh.buffill = 0], ok |-> TRUE]

\* The counts the Io may return to the flush of S (0 when nothing is pending).
FlushChoices(S) ==
    IF FlushPending(S.fh) THEN Accept(S.fh.buffill - S.fh.bufpos) ELSE {0}

\* doBufferedWrite: "whole thing fits in the buffer?"
FitsInBuffer(h, len) == (h.buffill + len) < h.bufsize

\* doBufferedWrite, the Io returning k1 to the flush and k2 to the write.
doBufferedWrite(S, chunk, k1, k2) ==
    LET h == S.fh
        len == Len(chunk)
    IN  IF FitsInBuffer(h, len)
        THEN [s |-> [S EXCEPT !.fh.buffer = Overwrite(h.buffer, h.buffill, chunk),
                              !.fh.buffill = h.buffill + len],
              rv |-> len]
        ELSE LET f == PHYSFS_flush(S, k1)
             IN  IF ~f.ok THEN [s |-> f.s, rv |-> -1]
                 ELSE [s |-> IoWrite(f.s, chunk, k2), rv |-> k2]

\* PHYSFS_writeBytes for len > 0.
PHYSFS_writeBytes(S, chunk, k1, k2) ==
    IF S.fh.forReading THEN [s |-> S, rv |-> -1]
    ELSE IF S.fh.hasBuf THEN doBufferedWrite(S, chunk, k1, k2)
    ELSE [s |-> IoWrite(S, chunk, k2), rv |-> k2]

\* The while loop of doBufferedRead: len bytes still wanted, out the bytes
\* copied so far (retval is their number).
RECURSIVE BufferedReadLoop(_, _, _, _)
BufferedReadLoop(S, len, out, r) ==
    LET h == S.fh
        avail == h.buffill - h.bufpos
    IN  IF len = 0 THEN [s |-> S, rv |-> Len(out), data |-> out]
        ELSE IF avail > 0
        THEN LET cpy == Min(len, avail)
             IN  BufferedReadLoop([S EXCEPT !.fh.bufpos = h.bufpos + cpy], len - cpy,
                                  out \o Slice(h.buffer, h.bufpos, h.bufpos + cpy), r)
        ELSE LET rc == IoReadCount(S, h.bufsize, r)
                 got == Slice(S.disk, S.iopos, S.iopos + rc)
                 S1 == [S EXCEPT !.iopos = S.iopos + rc,
                                 !.fh.buffer = Overwrite(h.buffer, 0, got),
                                 !.fh.bufpos = 0,
                                 !.fh.buffill = rc]
             IN  IF rc > 0 THEN BufferedReadLoop(S1, len, out, r)
                 ELSE [s |-> S1, rv |-> IF Len(out) = 0 THEN rc ELSE Len(out), data |-> out]

doBufferedRead(S, len, r) == BufferedReadLoop(S, len, <<>>, r)

\* PHYSFS_readBytes for len > 0.
PHYSFS_readBytes(S, len, r) ==
    IF ~S.fh.forReading THEN [s |-> S, rv |-> -1, data |-> <<>>]
    ELSE IF S.fh.hasBuf THEN doBufferedRead(S, len, r)
    ELSE LET rc == IoReadCount(S, len, r)
         IN  [s |-> [S EXCEPT !.iopos = S.iopos + rc], rv |-> rc,
              data |-> Slice(S.disk, S.iopos, S.iopos + rc)]

\* PHYSFS_seek: "seeking within the already-buffered range?"
SeekWithinBufferLoose(h, offset) ==
    \/ (offset >= 0 /\ offset <= h.buffill)
    \/ (offset < 0 /\ (-offset) <= h.bufpos)
SeekWithinBuffer(h, offset) ==
    \/ (offset >= 0 /\ offset <= h.buffill - h.bufpos)
    \/ (offset < 0 /\ (-offset) <= h.bufpos)

\* PHYSFS_seek, the Io returning k to the flush.
PHYSFS_seek(S, pos, k) ==
    LET f == PHYSFS_flush(S, k)
        h == f.s.fh
        offset == pos - PHYSFS_tell(h, f.s.iopos)
        raw == [f.s EXCEPT !.fh.buffill = 0, !.fh.bufpos = 0]
    IN  IF ~f.ok THEN [s |-> f.s, ok |-> FALSE]
        ELSE IF h.hasBuf /\ h.forReading /\ SeekWithinBuffer(h, offset)
        THEN [s |-> [f.s EXCEPT !.fh.bufpos = h.bufpos + offset], ok |-> TRUE]
        ELSE IF IoSeekOk(raw, pos) THEN [s |-> [raw EXCEPT !.iopos = pos], ok |-> TRUE]
        ELSE [s |-> raw, ok |-> FALSE]

\* PHYSFS_setBuffer: "for reads, we need to move the file pointer to where it
\* would be if we weren't buffering".
NeedsReseekNever(h) == FALSE
NeedsReseek(h) == h.forReading /\ h.buffill # h.bufpos

\* PHYSFS_setBuffer, the Io returning k to the flush and Realloc succeeding
\* or not.
PHYSFS_setBuffer(S, bufsize, k, allocOk) ==
    LET f == PHYSFS_flush(S, k)
        h == f.s.fh
        reseek == NeedsReseek(h)
        pos == (f.s.iopos - h.buffill) + h.bufpos
        S1 == IF reseek THEN [f.s EXCEPT !.iopos = pos] ELSE f.s
    IN  IF ~f.ok THEN [s |-> f.s, ok |-> FALSE]
        ELSE IF reseek /\ ~IoSeekOk(f.s, pos) THEN [s |-> f.s, ok |-> FALSE]
        ELSE IF bufsize = 0
        THEN [s |-> [S1 EXCEPT !.fh.hasBuf = FALSE, !.fh.buffer = <<>>,
                               !.fh.bufsize = 0, !.fh.buffill = 0, !.fh.bufpos = 0],
              ok |-> TRUE]
        ELSE IF ~allocOk THEN [s |-> [S1 EXCEPT !.fh.oom = TRUE], ok |-> FALSE]
        ELSE [s |-> [S1 EXCEPT !.fh.hasBuf = TRUE,
                               !.fh.buffer = [i \in 1..bufsize |->
                                                IF i <= Len(h.buffer) THEN h.buffer[i] ELSE 0],
                               !.fh.bufsize = bufsize, !.fh.buffill = 0, !.fh.bufpos = 0],
              ok |-> TRUE]

\* ------------------------------------------------------------- SpecFile
Cur == [disk |-> disk, iopos |-> iopos, fh |-> fh]
IsOpen == fh.mode \in {"r", "w"}

\* The state after an operation that left S.
Becomes(S) ==
    /\ disk' = S.disk
    /\ iopos' = S.iopos
    /\ fh' = S.fh

InitFile ==
    /\ sanIn = <<>>
    /\ sanRes = NotRun
    /\ TreeIdle
    /\ MountIdle
    /\ disk = <<>>
    /\ iopos = 0
    /\ fh = NewHandle("none", FALSE)
    /\ ioFull \in BOOLEAN
    /\ expect = <<>>
    /\ lpos = 0
    /\ nextByte = 0
    /\ fret = NoRet
    /\ OtherIdle

\* doOpenWrite on a new file: the handle heads openWriteList.
FOpenWrite ==
    /\ fh.mode = "none"
    /\ Becomes([disk |-> <<>>, iopos |-> 0, fh |-> NewHandle("w", FALSE)])
    /\ expect' = <<>>
    /\ lpos' = 0
    /\ fret' = [NoRet EXCEPT !.op = "openWrite"]
    /\ UNCHANGED <<ioFull, nextByte, sanVars, mountVars, otherVars>>

\* PHYSFS_openRead of the file written before.
FOpenRead ==
    /\ fh.mode = "wclosed"
    /\ Becomes([disk |-> disk, iopos |-> 0, fh |-> NewHandle("r", TRUE)])
    /\ lpos' = 0
    /\ fret' = [NoRet EXCEPT !.op = "openRead"]
    /\ UNCHANGED <<ioFull, expect, nextByte, sanVars, mountVars, otherVars>>

\* PHYSFS_writeBytes(handle, chunk, len): the bytes are numbered as they are
\* handed in, so that every byte of the run is different.
FWriteBytes(len, k1, k2) ==
    /\ IsOpen
    /\ nextByte + len <= MaxBytes
    /\ LET chunk == [i \in 1..len |-> nextByte + i]
           r == PHYSFS_writeBytes(Cur, chunk, k1, k2)
       IN  /\ Becomes(r.s)
           /\ expect' = IF r.rv > 0 THEN Overwrite(expect, lpos, Slice(chunk, 0, r.rv))
                        ELSE expect
           /\ lpos' = IF r.rv > 0 THEN lpos + r.rv ELSE lpos
           /\ fret' = [NoRet EXCEPT !.op = "writeBytes", !.ok = (r.rv > 0), !.rv = r.rv,
                                    !.at = lpos, !.want = len]
    /\ nextByte' = nextByte + len
    /\ UNCHANGED <<ioFull, sanVars, mountVars, otherVars>>

\* PHYSFS_readBytes(handle, buf, len).
FReadBytes(len, r) ==
    /\ IsOpen
    /\ LET res == PHYSFS_readBytes(Cur, len, r)
       IN  /\ Becomes(res.s)
           /\ lpos' = IF res.rv > 0 THEN lpos + res.rv ELSE lpos
           /\ fret' = [NoRet EXCEPT !.op = "readBytes", !.ok = (res.rv >= 0), !.rv = res.rv,
                                    !.at = lpos, !.want = len, !.data = res.data]
    /\ UNCHANGED <<ioFull, expect, nextByte, sanVars, mountVars, otherVars>>

\* PHYSFS_flush(handle).
FFlush(k) ==
    /\ IsOpen
    /\ LET f == PHYSFS_flush(Cur, k)
       IN  /\ Becomes(f.s)
           /\ fret' = [NoRet EXCEPT !.op = "flush", !.ok = f.ok]
    /\ UNCHANGED <<ioFull, expect, lpos, nextByte, sanVars, mountVars, otherVars>>

\* PHYSFS_seek(handle, pos).
FSeek(pos, k) ==
    /\ IsOpen
    /\ LET res == PHYSFS_seek(Cur, pos, k)
       IN  /\ Becomes(res.s)
           /\ lpos' = IF res.ok THEN pos ELSE lpos
           /\ fret' = [NoRet EXCEPT !.op = "seek", !.ok = res.ok, !.pos = pos]
    /\ UNCHANGED <<ioFull, expect, nextByte, sanVars, mountVars, otherVars>>

\* PHYSFS_setBuffer(handle, bufsize).
FSetBuffer(bufsize, k, allocOk) ==
    /\ IsOpen
    /\ LET res == PHYSFS_setBuffer(Cur, bufsize, k, allocOk)
       IN  /\ Becomes(res.s)
           /\ fret' = [NoRet EXCEPT !.op = "setBuffer", !.ok = res.ok, !.want = bufsize]
    /\ UNCHANGED <<ioFull, expect, lpos, nextByte, sanVars, mountVars, otherVars>>

\* closeHandleInOpenList as PHYSFS_close runs it on the list that holds the
\* handle: the Io returns k to the flush, and its own flush succeeds or not.
closeHandleInOpenList(S, k, ioFlushOk) ==
    LET f == IF S.fh.forReading THEN [s |-> S, ok |-> TRUE] ELSE PHYSFS_flush(S, k)
    IN  IF ~f.ok THEN [s |-> f.s, rc |-> -1]
        ELSE IF ~S.fh.forReading /\ ~ioFlushOk THEN [s |-> f.s, rc |-> -1]
        ELSE [s |-> [f.s EXCEPT !.fh.mode = IF S.fh.forReading THEN "rclosed" ELSE "wclosed",
                                !.fh.hasBuf = FALSE, !.fh.buffer = <<>>],
              rc |-> 1]

FClose(k, ioFlushOk) ==
    /\ IsOpen
    /\ LET res == closeHandleInOpenList(Cur, k, ioFlushOk)
       IN  /\ Becomes(res.s)
           /\ fret' = [NoRet EXCEPT !.op = "close", !.ok = (res.rc = 1), !.rv = res.rc]
    /\ UNCHANGED <<ioFull, expect, lpos, nextByte, sanVars, mountVars, otherVars>>

\* closeFileHandleList on the list that holds the one handle S.fh: the Io's
\* flush succeeds or not; the handle's own buffer is not looked at.
closeFileHandleList_fh(S, ioFlushOk) ==
    IF ~ioFlushOk THEN [s |-> S, ok |-> FALSE]
    ELSE [s |-> [S EXCEPT !.fh.mode = "wdeinit"], ok |-> TRUE]

\* PHYSFS_deinit while the write handle is open: doDeinit closes the write
\* list; when that leaves the handle, PHYSFS_setWriteDir(NULL) refuses with
\* FILES_STILL_OPEN and deinit returns failure.
FDeinit(ioFlushOk) ==
    /\ fh.mode = "w"
    /\ LET res == closeFileHandleList_fh(Cur, ioFlushOk)
       IN  /\ Becomes(res.s)
           /\ fret' = [NoRet EXCEPT !.op = "deinit", !.ok = res.ok]
    /\ UNCHANGED <<ioFull, expect, lpos, nextByte, sanVars, mountVars, otherVars>>

\* Realloc's outcomes: it fails at most once in the life of a handle.
AllocChoices == IF fh.oom THEN {TRUE} ELSE BOOLEAN

\* The buffer sizes setBuffer is given.
BufSizes == (0..MaxBytes) \cup {2 * MaxBytes}

NextFile ==
    \/ FOpenWrite
    \/ FOpenRead
    \/ \E len \in 1..MaxBytes :
         \E k1 \in FlushChoices(Cur) : \E k2 \in Accept(len) : FWriteBytes(len, k1, k2)
    \/ \E len \in 1..MaxBytes : \E r \in {1, MaxBytes} : FReadBytes(len, r)
    \/ \E k \in FlushChoices(Cur) : FFlush(k)
    \/ \E pos \in 0..(Len(disk) + (IF fh.forReading THEN 1 ELSE 0)) :
         \E k \in FlushChoices(Cur) : FSeek(pos, k)
    \/ \E n \in BufSizes : \E k \in FlushChoices(Cur) : \E a \in AllocChoices : FSetBuffer(n, k, a)
    \/ \E k \in FlushChoices(Cur) : \E ok \in (IF ioFull THEN {TRUE} ELSE BOOLEAN) : FClose(k, ok)
    \/ \E ok \in (IF ioFull THEN {TRUE} ELSE BOOLEAN) : FDeinit(ok)

SpecFile == InitFile /\ [][NextFile]_vars

\* ========================================================== mount stack
\* ---------------------------------------------- the directories on disk
\* The names mount is given.  "A" and "A/" name the same directory:
\* DIR_openArchive appends the separator when it is missing, and doMount
\* compares the names as given.
DirNames == {"A", "A/"}

\* The names setWriteDir is given; "" is NULL.
WriteDirNames == {"", "A"}

\* The directory tree: what lstat says of a name, relative to the directory.
\* l is a symbolic link to a directory that holds f, and s is a symbolic link
\* to a file; a is a file; d is a directory that holds the file f and the
\* symbolic link s.
Tree(name) ==
    CASE name = <<>> -> "dir"
      [] name = <<"f">> -> "file"
      [] name = <<"a">> -> "file"
      [] name = <<"s">> -> "symlink"
      [] name = <<"l">> -> "symlink"
      [] name = <<"l", "/", "f">> -> "file"
      [] name = <<"d">> -> "dir"
      [] name = <<"d", "/", "f">> -> "file"
      [] name = <<"d", "/", "s">> -> "symlink"
      [] OTHER -> "missing"

\* The entries readdir gives for a directory of the tree, in its order.
DirEntries(name) ==
    CASE name = <<>> -> << <<"a">>, <<"d">>, <<"f">>, <<"l">>, <<"s">> >>
      [] name = <<"d">> -> << <<"f">>, <<"s">> >>
      [] name = <<"l">> -> << <<"f">> >>
      [] OTHER -> << >>

\* DIR_stat: __PHYSFS_platformStat of the name under the directory, links not
\* followed; "missing" is the failure, which sets NOT_FOUND.
DIR_stat(dirName, name) == IF name \in Changeable THEN made[name] ELSE Tree(name)

\* doOpen of the DIR archiver: the native open follows links, and opens the
\* regular files there are.
doOpen(dirName, name) == DIR_stat(dirName, name) = "file" \/ name = <<"s">>

DIR_openRead(dirName, name) == doOpen(dirName, name)

\* The index of the last '/' of the name, 0 when it has none.
LastSlash(name) ==
    IF \E k \in 1..Len(name) : name[k] = "/"
    THEN CHOOSE k \in 1..Len(name) :
            name[k] = "/" /\ \A j \in (k + 1)..Len(name) : name[j] # "/"
    ELSE 0

\* The name of the directory that holds the name; <<>> is the directory
\* itself.
ParentName(name) == SubSeq(name, 1, LastSlash(name) - 1)

\* doOpen for 'w' and 'a': the native open creates the file when its
\* directory is there, and fails on a directory and under a missing one.
\* Of the names that are not there it creates the Changeable ones.
DIR_openWriteExisting(dirName, name) == doOpen(dirName, name)
DIR_openWrite(dirName, name) ==
    \/ doOpen(dirName, name)
    \/ /\ name \in Changeable
       /\ DIR_stat(dirName, name) = "missing"
       /\ DIR_stat(dirName, ParentName(name)) = "dir"

\* The error the native open for writing fails with.
OpenWriteError(dirName, name) ==
    IF DIR_stat(dirName, name) = "dir" THEN "NOT_A_FILE" ELSE "NOT_FOUND"

\* --------------------------------------------------------- verifyPath
\* strncmp(a, b, n) == 0
StrNEq(a, b, n) == \A k \in 1..n : CharAt(a, k) = CharAt(b, k)

\* s + n
Drop(s, n) == SubSeq(s, n + 1, Len(s))

\* strchr(start, '/') as an index into s, 0 for NULL.
RECURSIVE StrChrSlash(_, _)
StrChrSlash(s, start) ==
    IF start > Len(s) THEN 0
    ELSE IF s[start] = "/" THEN start
    ELSE StrChrSlash(s, start + 1)

\* The mountpoint block of verifyPath without its "corner case" test.
UnderMountPointLoose(h, fname) ==
    IF h.mountPoint = <<>> THEN [ok |-> TRUE, arc |-> fname]
    ELSE LET mntpntlen == Len(h.mountPoint)
             len == Len(fname)
             rest == Drop(fname, mntpntlen - 1)
         IN  IF len < mntpntlen - 1 THEN [ok |-> FALSE, arc |-> fname]
             ELSE IF ~StrNEq(h.mountPoint, fname, mntpntlen - 1)
             THEN [ok |-> FALSE, arc |-> fname]
             ELSE [ok |-> TRUE,
                   arc |-> IF rest # <<>> /\ rest[1] = "/" THEN Tail(rest) ELSE rest]

\* The mountpoint block of verifyPath: whether fname is under h's mountpoint,
\* and fname moved past it.
UnderMountPoint(h, fname) ==
    IF h.mountPoint = <<>> THEN [ok |-> TRUE, arc |-> fname]
    ELSE LET mntpntlen == Len(h.mountPoint)
             len == Len(fname)
             rest == Drop(fname, mntpntlen - 1)
         IN  IF len < mntpntlen - 1 THEN [ok |-> FALSE, arc |-> fname]
             ELSE IF ~StrNEq(h.mountPoint, fname, mntpntlen - 1)
             THEN [ok |-> FALSE, arc |-> fname]
             ELSE IF len > mntpntlen - 1 /\ fname[mntpntlen] # "/"
             THEN [ok |-> FALSE, arc |-> fname]
             ELSE [ok |-> TRUE,
                   arc |-> IF rest # <<>> /\ rest[1] = "/" THEN Tail(rest) ELSE rest]

\* statbuf.filetype == PHYSFS_FILETYPE_SYMLINK
IsSymlinkNever(st) == FALSE
IsSymlink(st) == st = "symlink"

\* The while (1) loop of verifyPath from start on; e is the thread's error
\* code so far and stats the names handed to the archiver's stat.
RECURSIVE SymlinkLoop(_, _, _, _, _, _)
SymlinkLoop(h, fname, start, allowMissing, e, stats) ==
    LET end == StrChrSlash(fname, start)
        name == IF end = 0 THEN fname ELSE SubSeq(fname, 1, end - 1)
        st == DIR_stat(h.dirName, name)
        seen == stats \cup {name}
    IN  IF IsSymlink(st)
        THEN [ok |-> FALSE, arc |-> fname, err |-> "SYMLINK_FORBIDDEN", stats |-> seen]
        ELSE IF st = "missing"
        THEN [ok |-> (end = 0 \/ allowMissing), arc |-> fname, err |-> "NOT_FOUND",
              stats |-> seen]
        ELSE IF end = 0
        THEN [ok |-> TRUE, arc |-> fname, err |-> e, stats |-> seen]
        ELSE SymlinkLoop(h, fname, end + 1, allowMissing, e, seen)

\* verifyPath(h, &fname, allowMissing) with the thread's error code e.
verifyPath(h, fname, allowMissing, e) ==
    LET u == UnderMountPoint(h, fname)
    IN  IF fname = <<>> THEN [ok |-> TRUE, arc |-> fname, err |-> e, stats |-> {}]
        ELSE IF ~u.ok THEN [ok |-> FALSE, arc |-> fname, err |-> "NOT_FOUND", stats |-> {}]
        ELSE IF allowSymLinks THEN [ok |-> TRUE, arc |-> u.arc, err |-> e, stats |-> {}]
        ELSE SymlinkLoop(h, u.arc, 1, allowMissing, e, {})

\* ------------------------------------------------- DirHandles and lists
\* The elements of a list.
Range(list) == {list[k] : k \in 1..Len(list)}

\* What Malloc returns for a DirHandle: a free cell of the heap.
FreeCells == {i \in 1..MaxDH : ~dhs[i].live}
NewCell == CHOOSE i \in FreeCells : \A j \in FreeCells : i <= j

\* The file handles in use, and a new one.
OpenFids == {h.fid : h \in Range(openReadList) \cup Range(openWriteList)}
NewFid == CHOOSE i \in (1..MaxFH) \ OpenFids : \A j \in (1..MaxFH) \ OpenFids : i <= j

\* freeDirHandle's loop: "i->dirHandle == dh" for some i of the open list.
ReferencesNever(openList, dh) == FALSE
References(openList, dh) == \E k \in 1..Len(openList) : openList[k].dh = dh

\* createDirHandle: the DirHandle for newDir, under the sanitized mountPoint
\* with '/' appended, NULL when that is empty or when there is none.
createDirHandle(newDir, mountPoint) ==
    LET san == sanitizePlatformIndependentPath(mountPoint)
    IN  [ok |-> san.ok,
         dh |-> [live |-> TRUE, dirName |-> newDir,
                 mountPoint |-> IF san.out = <<>> THEN <<>> ELSE san.out \o <<"/">>]]

\* The list without its k-th element.
WithoutLast(list, k) == SubSeq(list, 1, Len(list) - 1)
Without(list, k) == SubSeq(list, 1, k - 1) \o SubSeq(list, k + 1, Len(list))

\* The index of the first element of the search path named dirName, 0 if none.
IndexOfDir(dirName) ==
    IF \E k \in 1..Len(searchPath) : dhs[searchPath[k]].dirName = dirName
    THEN CHOOSE k \in 1..Len(searchPath) :
            /\ dhs[searchPath[k]].dirName = dirName
            /\ \A j \in 1..(k - 1) : dhs[searchPath[j]].dirName # dirName
    ELSE 0

\* closeFileHandleList, the Io of the failAt-th handle failing its flush
\* (none when failAt = 0): the list it leaves.
closeFileHandleList(list, failAt) ==
    IF failAt = 0 THEN <<>> ELSE SubSeq(list, failAt, Len(list))

\* ------------------------------------------------------------ the calls
Call(op, ok, arg) ==
    [op |-> op, ok |-> ok, arg |-> arg, flag |-> FALSE, served |-> 0, fid |-> 0,
     passed |-> <<>>, probe |-> "none", claimed |-> FALSE, arcerr |-> "OK", oom |-> FALSE,
     io |-> "none", filetype |-> "none", stopAt |-> 0, how |-> "none", gone |-> <<>>,
     list |-> <<>>]

InitMount ==
    /\ sanIn = <<>>
    /\ sanRes = NotRun
    /\ TreeIdle
    /\ FileIdle
    /\ MountIdle
    /\ OtherIdle

\* PHYSFS_init; the allocator, the mutexes and the base and user directories
\* are there.
PHYSFS_init ==
    /\ initialized' = TRUE
    /\ err' = IF initialized THEN "IS_INITIALIZED" ELSE "OK"
    /\ ret' = Call("init", ~initialized, <<>>)
    /\ calls' = {}
    /\ UNCHANGED <<searchPath, dhs, writeDir, openReadList, openWriteList, allowSymLinks>>
    /\ UNCHANGED <<made, sanVars, fileVars, otherVars>>

\* doMount: where the new DirHandle goes in the search path.
InsertAlwaysTail(sp, dh, appendToPath) == Append(sp, dh)
InsertInSearchPath(sp, dh, appendToPath) ==
    IF appendToPath THEN Append(sp, dh) ELSE <<dh>> \o sp

\* PHYSFS_mount(newDir, mountPoint, appendToPath), through doMount.
PHYSFS_mount(fname, mountPoint, appendToPath) ==
    /\ initialized
    /\ IndexOfDir(fname) # 0 \/ FreeCells # {}
    /\ LET c == createDirHandle(fname, mountPoint)
       IN  IF IndexOfDir(fname) # 0
           THEN /\ ret' = Call("mount", TRUE, fname)
                /\ err' = "OK"
                /\ UNCHANGED <<searchPath, dhs>>
           ELSE IF ~c.ok
           THEN /\ ret' = Call("mount", FALSE, fname)
                /\ err' = "BAD_FILENAME"
                /\ UNCHANGED <<searchPath, dhs>>
           ELSE /\ dhs' = [dhs EXCEPT ![NewCell] = c.dh]
                /\ searchPath' = InsertInSearchPath(searchPath, NewCell, appendToPath)
                /\ ret' = [Call("mount", TRUE, fname) EXCEPT !.served = NewCell,
                                                         !.flag = appendToPath]
                /\ err' = "OK"
    /\ calls' = {}
    /\ UNCHANGED <<initialized, writeDir, openReadList, openWriteList, allowSymLinks>>
    /\ UNCHANGED <<made, sanVars, fileVars, otherVars>>

\* PHYSFS_unmount: the open list freeDirHandle is given.
UnmountOpenListWrite == openWriteList
UnmountOpenList == openReadList

\* PHYSFS_unmount(oldDir)
PHYSFS_unmount(oldDir) ==
    /\ initialized
    /\ LET k == IndexOfDir(oldDir)
       IN  IF k = 0
           THEN /\ ret' = Call("unmount", FALSE, oldDir)
                /\ err' = "NOT_MOUNTED"
                /\ UNCHANGED <<searchPath, dhs>>
           ELSE IF References(UnmountOpenList, searchPath[k])
           THEN /\ ret' = Call("unmount", FALSE, oldDir)
                /\ err' = "FILES_STILL_OPEN"
                /\ UNCHANGED <<searchPath, dhs>>
           ELSE /\ dhs' = [dhs EXCEPT ![searchPath[k]] = NoDirHandle]
                /\ searchPath' = Without(searchPath, k)
                /\ ret' = [Call("unmount", TRUE, oldDir) EXCEPT !.served = searchPath[k]]
                /\ err' = "OK"
    /\ calls' = {}
    /\ UNCHANGED <<initialized, writeDir, openReadList, openWriteList, allowSymLinks>>
    /\ UNCHANGED <<made, sanVars, fileVars, otherVars>>

\* PHYSFS_setWriteDir(newDir)
PHYSFS_setWriteDir(newDir) ==
    /\ initialized
    /\ writeDir # 0 \/ FreeCells # {}
    /\ IF writeDir # 0 /\ References(openWriteList, writeDir)
       THEN /\ ret' = Call("setWriteDir", FALSE, newDir)
            /\ err' = "FILES_STILL_OPEN"
            /\ UNCHANGED <<dhs, writeDir>>
       ELSE LET freed == IF writeDir # 0 THEN [dhs EXCEPT ![writeDir] = NoDirHandle] ELSE dhs
                cell == CHOOSE i \in 1..MaxDH :
                           /\ ~freed[i].live
                           /\ \A j \in 1..MaxDH : ~freed[j].live => i <= j
            IN  /\ dhs' = IF newDir = "" THEN freed
                          ELSE [freed EXCEPT ![cell] =
                                   [live |-> TRUE, dirName |-> newDir, mountPoint |-> <<>>]]
                /\ writeDir' = IF newDir = "" THEN 0 ELSE cell
                /\ ret' = Call("setWriteDir", TRUE, newDir)
                /\ err' = "OK"
    /\ calls' = {}
    /\ UNCHANGED <<initialized, searchPath, openReadList, openWriteList, allowSymLinks>>
    /\ UNCHANGED <<made, sanVars, fileVars, otherVars>>

\* PHYSFS_permitSymbolicLinks(allow)
PHYSFS_permitSymbolicLinks(allow) ==
    /\ initialized
    /\ allowSymLinks' = allow
    /\ ret' = Call("permitSymbolicLinks", TRUE, <<>>)
    /\ calls' = {}
    /\ err' = "OK"
    /\ UNCHANGED <<initialized, searchPath, dhs, writeDir, openReadList, openWriteList>>
    /\ UNCHANGED <<made, sanVars, fileVars, otherVars>>

\* The for loop of PHYSFS_openRead from the k-th element of the search path
\* on: the DirHandle that served fname (0 when io is NULL), the thread's error
\* code and the names handed to the archiver.
RECURSIVE OpenReadLoop(_, _, _, _)
OpenReadLoop(k, fname, e, seen) ==
    IF k > Len(searchPath) THEN [served |-> 0, err |-> e, calls |-> seen]
    ELSE LET i == searchPath[k]
             v == verifyPath(dhs[i], fname, FALSE, e)
         IN  IF ~v.ok THEN OpenReadLoop(k + 1, fname, v.err, seen \cup v.stats)
             ELSE IF DIR_openRead(dhs[i].dirName, v.arc)
             THEN [served |-> i, err |-> v.err, calls |-> seen \cup v.stats \cup {v.arc}]
             ELSE OpenReadLoop(k + 1, fname, "NOT_FOUND", seen \cup v.stats \cup {v.arc})

\* PHYSFS_openRead(_fname)
PHYSFS_openRead(_fname) ==
    /\ initialized
    /\ OpenFids # 1..MaxFH
    /\ LET san == sanitizePlatformIndependentPath(_fname)
           r == OpenReadLoop(1, san.out, "OK", {})
       IN  IF ~san.ok
           THEN /\ ret' = Call("openRead", FALSE, _fname)
                /\ err' = "BAD_FILENAME"
                /\ calls' = {}
                /\ UNCHANGED openReadList
           ELSE IF searchPath = <<>>
           THEN /\ ret' = Call("openRead", FALSE, _fname)
                /\ err' = "NOT_FOUND"
                /\ calls' = {}
                /\ UNCHANGED openReadList
           ELSE /\ ret' = [Call("openRead", r.served # 0, _fname) EXCEPT
                              !.served = r.served,
                              !.fid = IF r.served # 0 THEN NewFid ELSE 0]
                /\ err' = r.err
                /\ calls' = r.calls
                /\ openReadList' = IF r.served # 0
                                   THEN <<[fid |-> NewFid, dh |-> r.served]>> \o openReadList
                                   ELSE openReadList
    /\ UNCHANGED <<initialized, searchPath, dhs, writeDir, openWriteList, allowSymLinks>>
    /\ UNCHANGED <<made, sanVars, fileVars, otherVars>>

\* --------------------------------------------------------- enumerate
\* partOfMountPoint(h, fname)
partOfMountPoint(h, fname) ==
    IF h.mountPoint = <<>> THEN FALSE
    ELSE IF fname = <<>> THEN TRUE
    ELSE LET len == Len(fname)
             mntpntlen == Len(h.mountPoint)
         IN  IF len > mntpntlen THEN FALSE
             ELSE IF len + 1 = mntpntlen THEN FALSE
             ELSE IF ~StrNEq(fname, h.mountPoint, len) THEN FALSE
             ELSE CharAt(h.mountPoint, len + 1) = "/"

\* An enumeration under way: the value the last callback returned, the
\* entries handed to the application's callback so far (with the DirHandle
\* they came from, and whether they are segments of a mountpoint), the
\* thread's error code and the errcode of the symlink filter.
NoEnum == [retval |-> "OK", passed |-> <<>>, err |-> "OK", errcode |-> "OK", gone |-> <<>>]

\* The application's callback: it returns OK until its stopAt-th call, where
\* it returns how (STOP or ERROR); it never does when stopAt = 0.
AppCallback(st, i, fname, synth, stopAt, how) ==
    [st EXCEPT !.passed = Append(@, [dh |-> i, name |-> fname, synth |-> synth]),
               !.retval = IF Len(st.passed) + 1 = stopAt THEN how ELSE "OK"]

\* enumCallbackFilterSymLinks: "pass it on to the application if it's not a
\* symlink".
FilterPassesAll(st) == TRUE
FilterPasses(st) == st # "symlink"

\* enumCallbackFilterSymLinks(data, origdir, fname)
enumCallbackFilterSymLinks(st, i, arcfname, fname, stopAt, how) ==
    LET trimmedDir == IF CharAt(arcfname, 1) = "/" THEN Tail(arcfname) ELSE arcfname
        path == trimmedDir \o (IF trimmedDir # <<>> THEN <<"/">> ELSE <<>>) \o fname
        statbuf == IF fname = st.gone THEN "missing" ELSE DIR_stat(dhs[i].dirName, path)
        r == AppCallback(st, i, fname, FALSE, stopAt, how)
    IN  IF statbuf = "missing"
        THEN [st EXCEPT !.retval = "ERROR", !.err = "NOT_FOUND", !.errcode = "NOT_FOUND"]
        ELSE IF FilterPasses(statbuf)
        THEN [r EXCEPT !.errcode = IF r.retval = "ERROR" THEN "APP_CALLBACK" ELSE @]
        ELSE [st EXCEPT !.retval = "OK"]

\* DIR_enumerate from the k-th entry of the directory on: the callback (the
\* symlink filter when filtered) is called for each entry until it returns
\* STOP or ERROR, and ERROR sets APP_CALLBACK.
RECURSIVE DIR_enumerate(_, _, _, _, _, _, _)
DIR_enumerate(st, i, dname, k, filtered, stopAt, how) ==
    IF k > Len(DirEntries(dname)) THEN st
    ELSE LET fname == DirEntries(dname)[k]
             r == IF filtered
                  THEN enumCallbackFilterSymLinks(st, i, dname, fname, stopAt, how)
                  ELSE AppCallback(st, i, fname, FALSE, stopAt, how)
         IN  IF r.retval = "ERROR" THEN [r EXCEPT !.err = "APP_CALLBACK"]
             ELSE IF r.retval = "STOP" THEN r
             ELSE DIR_enumerate(r, i, dname, k + 1, filtered, stopAt, how)

\* "ptr = mountPoint + ((len) ? len + 1 : 0)", as an index from 1.
SegmentStartFirst(len) == 1
SegmentStart(len) == IF len # 0 THEN len + 2 ELSE 1

\* enumerateFromMountPoint: the segment of i's mountpoint that follows
\* arcfname is handed to the callback.
enumerateFromMountPoint(st, i, arcfname, stopAt, how) ==
    LET len == Len(arcfname)
        mountPoint == dhs[i].mountPoint
        ptr == SegmentStart(len)
        end == StrChrSlash(mountPoint, ptr)
        r == AppCallback(st, i, SubSeq(mountPoint, ptr, end - 1), TRUE, stopAt, how)
    IN  IF r.retval = "ERROR" THEN [r EXCEPT !.err = "APP_CALLBACK"] ELSE r

\* info.supportsSymlinks of the DIR archiver.
supportsSymlinks == TRUE

\* "(retval == PHYSFS_ENUM_OK) && i": the loop goes on to the next element.
GoesOnUnlessError(retval) == retval # "ERROR"
GoesOn(retval) == retval = "OK"

\* The for loop of PHYSFS_enumerate from the k-th element of the search path.
RECURSIVE EnumerateLoop(_, _, _, _, _)
EnumerateLoop(k, fname, st, stopAt, how) ==
    IF k > Len(searchPath) \/ ~GoesOn(st.retval) THEN st
    ELSE LET i == searchPath[k]
             v == verifyPath(dhs[i], fname, FALSE, st.err)
             statbuf == DIR_stat(dhs[i].dirName, v.arc)
             filtered == ~allowSymLinks /\ supportsSymlinks
             r == DIR_enumerate([st EXCEPT !.err = v.err, !.errcode = "OK"], i, v.arc, 1,
                                filtered, stopAt, how)
         IN  IF partOfMountPoint(dhs[i], fname)
             THEN EnumerateLoop(k + 1, fname,
                                enumerateFromMountPoint(st, i, fname, stopAt, how),
                                stopAt, how)
             ELSE IF ~v.ok
             THEN EnumerateLoop(k + 1, fname, [st EXCEPT !.err = v.err], stopAt, how)
             ELSE IF statbuf = "missing"
             THEN EnumerateLoop(k + 1, fname, [st EXCEPT !.err = "NOT_FOUND"], stopAt, how)
             ELSE IF statbuf # "dir"
             THEN EnumerateLoop(k + 1, fname, [st EXCEPT !.err = v.err], stopAt, how)
             ELSE EnumerateLoop(k + 1, fname,
                                IF filtered /\ r.retval = "ERROR" /\ r.err = "APP_CALLBACK"
                                THEN [r EXCEPT !.err = r.errcode]
                                ELSE r,
                                stopAt, how)

\* PHYSFS_enumerate(_fn, cb, data); ret.flag tells that the callback never
\* returns STOP or ERROR.  gone is the entry another process removes between
\* the readdir that gives it and the stat of the symlink filter (<<>>: none).
PHYSFS_enumerate(_fn, stopAt, how, gone) ==
    /\ initialized
    /\ LET san == sanitizePlatformIndependentPath(_fn)
           r == EnumerateLoop(1, san.out, [NoEnum EXCEPT !.gone = gone], stopAt, how)
       IN  IF ~san.ok
           THEN /\ ret' = [Call("enumerate", TRUE, _fn) EXCEPT
                              !.flag = (stopAt = 0), !.stopAt = stopAt, !.how = how,
                              !.gone = gone]
                /\ err' = "BAD_FILENAME"
           ELSE /\ ret' = [Call("enumerate", r.retval # "ERROR", _fn) EXCEPT
                              !.flag = (stopAt = 0), !.passed = r.passed,
                              !.stopAt = stopAt, !.how = how, !.gone = gone]
                /\ err' = r.err
    /\ calls' = {}
    /\ UNCHANGED <<initialized, searchPath, dhs, writeDir, openReadList, openWriteList,
                   allowSymLinks>>
    /\ UNCHANGED <<made, sanVars, fileVars, otherVars>>

\* "!writeDir[dv]": no write dir is set.
NoWriteDirNever(wd) == FALSE
NoWriteDir(wd) == wd = 0

\* "h = writeDir[dv]"
WriteDirHandle == IF writeDir = 0 THEN NoDirHandle ELSE dhs[writeDir]

\* doOpenWrite(_fname, appending): openWrite truncates a file that is there
\* and openAppend does not, which the lists do not see.
doOpenWrite(_fname, appending) ==
    /\ initialized
    /\ OpenFids # 1..MaxFH
    /\ LET san == sanitizePlatformIndependentPath(_fname)
           v == verifyPath(WriteDirHandle, san.out, FALSE, "OK")
           op == "doOpenWrite"
       IN  IF ~san.ok
           THEN /\ ret' = Call(op, FALSE, _fname)
                /\ err' = "BAD_FILENAME"
                /\ calls' = {}
                /\ UNCHANGED <<openWriteList, made>>
           ELSE IF NoWriteDir(writeDir)
           THEN /\ ret' = Call(op, FALSE, _fname)
                /\ err' = "NO_WRITE_DIR"
                /\ calls' = {}
                /\ UNCHANGED <<openWriteList, made>>
           ELSE IF ~v.ok
           THEN /\ ret' = Call(op, FALSE, _fname)
                /\ err' = v.err
                /\ calls' = v.stats
                /\ UNCHANGED <<openWriteList, made>>
           ELSE IF ~DIR_openWrite(WriteDirHandle.dirName, v.arc)
           THEN /\ ret' = Call(op, FALSE, _fname)
                /\ err' = OpenWriteError(WriteDirHandle.dirName, v.arc)
                /\ calls' = v.stats \cup {v.arc}
                /\ UNCHANGED <<openWriteList, made>>
           ELSE /\ ret' = [Call(op, TRUE, _fname) EXCEPT !.served = writeDir, !.fid = NewFid]
                /\ err' = v.err
                /\ calls' = v.stats \cup {v.arc}
                /\ openWriteList' = <<[fid |-> NewFid, dh |-> writeDir]>> \o openWriteList
                /\ made' = IF v.arc \in Changeable THEN [made EXCEPT ![v.arc] = "file"]
                           ELSE made
    /\ UNCHANGED <<initialized, searchPath, dhs, writeDir, openReadList, allowSymLinks>>
    /\ UNCHANGED <<sanVars, fileVars, otherVars>>

\* The index of the handle in the list, 0 when it is not there.
IndexOfHandle(list, fid) ==
    IF \E k \in 1..Len(list) : list[k].fid = fid
    THEN CHOOSE k \in 1..Len(list) : list[k].fid = fid
    ELSE 0

\* PHYSFS_close(handle) of a handle of one of the lists; for a write handle
\* PHYSFS_flush and the Io's flush succeed (flushOk) or one of them fails.
PHYSFS_close(fid, flushOk) ==
    /\ initialized
    /\ fid \in OpenFids
    /\ LET kr == IndexOfHandle(openReadList, fid)
           kw == IndexOfHandle(openWriteList, fid)
       IN  IF kr # 0
           THEN /\ openReadList' = Without(openReadList, kr)
                /\ ret' = [Call("close", TRUE, <<>>) EXCEPT !.fid = fid]
                /\ err' = "OK"
                /\ UNCHANGED openWriteList
           ELSE IF ~flushOk
           THEN /\ ret' = [Call("close", FALSE, <<>>) EXCEPT !.fid = fid]
                /\ err' = "IO"
                /\ UNCHANGED <<openReadList, openWriteList>>
           ELSE /\ openWriteList' = Without(openWriteList, kw)
                /\ ret' = [Call("close", TRUE, <<>>) EXCEPT !.fid = fid]
                /\ err' = "OK"
                /\ UNCHANGED openReadList
    /\ calls' = {}
    /\ UNCHANGED <<initialized, searchPath, dhs, writeDir, allowSymLinks>>
    /\ UNCHANGED <<made, sanVars, fileVars, otherVars>>

\* PHYSFS_deinit, through doDeinit: failW and failR are the handles of the
\* write list and of the read list whose Io fails its flush (0 for none);
\* ret.flag tells that one did.
PHYSFS_deinit(failW, failR) ==
    /\ initialized
    /\ LET wl == closeFileHandleList(openWriteList, failW)
           rl == closeFileHandleList(openReadList, failR)
           failed == failW # 0 \/ failR # 0
       IN  IF writeDir # 0 /\ References(wl, writeDir)
           THEN /\ openWriteList' = wl
                /\ ret' = [Call("deinit", FALSE, <<>>) EXCEPT !.flag = failed]
                /\ err' = "FILES_STILL_OPEN"
                /\ UNCHANGED <<initialized, searchPath, dhs, writeDir, openReadList,
                               allowSymLinks>>
           ELSE /\ openWriteList' = wl
                /\ writeDir' = 0
                /\ openReadList' = rl
                /\ dhs' = [i \in 1..MaxDH |->
                             IF i = writeDir THEN NoDirHandle
                             ELSE IF i \in Range(searchPath) /\ ~References(rl, i)
                             THEN NoDirHandle
                             ELSE dhs[i]]
                /\ searchPath' = <<>>
                /\ allowSymLinks' = FALSE
                /\ initialized' = FALSE
                /\ ret' = [Call("deinit", TRUE, <<>>) EXCEPT !.flag = failed]
                /\ err' = "OK"
    /\ calls' = {}
    /\ UNCHANGED <<made, sanVars, fileVars, otherVars>>

\* The mountpoints given to mount.
MountPoints == {<<"/">>, <<"l">>}

\* The file names given to openRead, openWrite and openAppend.
FileNames ==
    { <<"f">>, <<"s">>, <<"l", "/", "f">>,
      <<"a", "/", ".", ".">>, <<".", ".", "/", "f">>, <<"a", "/", ".", ".", "/", "f">> }

\* The directory names given to enumerate.
EnumNames == { <<>>, <<"d">>, <<"/", "d", "/">>, <<"l">>, <<"f">>, <<"d", "/", ".", ".">> }

\* The mount stack and the lookup of openRead.
NextMount ==
    \/ PHYSFS_init
    \/ \E d \in DirNames : \E mp \in MountPoints : \E a \in BOOLEAN : PHYSFS_mount(d, mp, a)
    \/ \E d \in DirNames : PHYSFS_unmount(d)
    \/ \E allow \in BOOLEAN : PHYSFS_permitSymbolicLinks(allow)
    \/ \E f \in FileNames : PHYSFS_openRead(f)
    \/ \E fid \in 1..MaxFH : PHYSFS_close(fid, TRUE)

SpecMount == InitMount /\ [][NextMount]_vars

\* ============================================================= SpecEnum
\* What the application's callback does: the call at which it stops the
\* enumeration (0: never) and the value it returns there.
CallbackPlans == { <<0, "STOP">>, <<1, "STOP">>, <<2, "STOP">>, <<1, "ERROR">>, <<2, "ERROR">> }

\* The entry that is gone when the symlink filter stats it; <<>> is none.
Gones == { <<>>, <<"f">> }

\* enumerate of a directory no other process changes.
PHYSFS_enumerate_alone(_fn, stopAt, how) == PHYSFS_enumerate(_fn, stopAt, how, <<>>)

\* The mount stack and enumerate.
NextEnum ==
    \/ PHYSFS_init
    \/ \E d \in DirNames : \E mp \in MountPoints : \E a \in BOOLEAN : PHYSFS_mount(d, mp, a)
    \/ \E d \in DirNames : PHYSFS_unmount(d)
    \/ \E allow \in BOOLEAN : PHYSFS_permitSymbolicLinks(allow)
    \/ \E dn \in EnumNames : \E c \in CallbackPlans : PHYSFS_enumerate_alone(dn, c[1], c[2])

SpecEnum == InitMount /\ [][NextEnum]_vars

\* The mount stack and enumerate of directories another process removes
\* entries from.
NextEnumRace ==
    \/ PHYSFS_init
    \/ \E d \in DirNames : \E mp \in MountPoints : \E a \in BOOLEAN : PHYSFS_mount(d, mp, a)
    \/ \E d \in DirNames : PHYSFS_unmount(d)
    \/ \E allow \in BOOLEAN : PHYSFS_permitSymbolicLinks(allow)
    \/ \E dn \in EnumNames : \E c \in CallbackPlans : \E gone \in Gones :
          PHYSFS_enumerate(dn, c[1], c[2], gone)

SpecEnumRace == InitMount /\ [][NextEnumRace]_vars

\* ============================================================ SpecLists
\* The DirHandles and the open lists through the life of the drive; every
\* mount is at "/" and every file opened is f.
NextLists ==
    \/ PHYSFS_init
    \/ \E d \in DirNames : \E a \in BOOLEAN : PHYSFS_mount(d, <<"/">>, a)
    \/ \E d \in DirNames : PHYSFS_unmount(d)
    \/ \E d \in WriteDirNames : PHYSFS_setWriteDir(d)
    \/ PHYSFS_openRead(<<"f">>)
    \/ \E appending \in BOOLEAN : doOpenWrite(<<"f">>, appending)
    \/ \E fid \in 1..MaxFH : \E ok \in BOOLEAN : PHYSFS_close(fid, ok)
    \/ \E w \in 0..Len(openWriteList) : \E r \in 0..Len(openReadList) : PHYSFS_deinit(w, r)

SpecLists == InitMount /\ [][NextLists]_vars

\* =========================================================== SpecDrives
\* The calls below are those whose behaviour is defined: a call that records
\* an error on a drive whose allocator[dv] was never set calls through a null
\* Malloc, and a call that takes stateLock[dv] before PHYSFS_init has created
\* it hands the platform a null mutex; the process ends there.
DriveCall(dv, op, ok) == [NoDriveCall EXCEPT !.dv = dv, !.op = op, !.ok = ok]

\* PHYSFS_setErrorCode(errcode, dv) by the one thread there is.
SetDriveError(dr, dv, errcode) == [dr EXCEPT ![dv].errorStates = errcode]

\* The one-time multi initialization of PHYSFS_init: every drive's statics
\* but allocator[d] are set to zero.
MultiInit(dr) == [d \in Drives |-> [ZeroDrive EXCEPT !.allocator = dr[d].allocator]]

\* PHYSFS_setAllocator(a, dv); a is NULL (FALSE) or an allocator of the
\* application's.
PHYSFS_setAllocator(a, dv) ==
    /\ IF drive[dv].initialized
       THEN /\ drive' = SetDriveError(drive, dv, "IS_INITIALIZED")
            /\ dret' = DriveCall(dv, "setAllocator", FALSE)
       ELSE /\ drive' = [drive EXCEPT ![dv].externalAllocator = a,
                                      ![dv].allocator = IF a THEN "external" ELSE @]
            /\ dret' = DriveCall(dv, "setAllocator", TRUE)
    /\ UNCHANGED multi_initialized
    /\ UNCHANGED <<sanVars, fileVars, mountVars, errVars, lockVars>>

\* What PHYSFS_init is given as argv0: NULL, a name without a directory
\* separator, or a path with one.
Argv0s == {"null", "name", "path"}

\* calculateBaseDir(argv0, dv): hook tells whether
\* __PHYSFS_platformCalcBaseDir finds the base dir; Malloc succeeds.
calculateBaseDir(hook, argv0) ==
    IF hook THEN [ok |-> TRUE, err |-> "OK"]
    ELSE IF argv0 = "null" THEN [ok |-> FALSE, err |-> "ARGV0_IS_NULL"]
    ELSE IF argv0 = "path" THEN [ok |-> TRUE, err |-> "OK"]
    ELSE [ok |-> FALSE, err |-> "INVALID_ARGUMENT"]

\* doDeinit(dv) on a drive whose Ios all flush: the statics it leaves.
doDeinit(d) ==
    [ZeroDrive EXCEPT !.externalAllocator = d.externalAllocator,
                      !.allocator = d.allocator]

\* PHYSFS_init(argv0, dv); the allocator's Init, the mutexes and the user
\* directory do not fail.
PHYSFS_init_argv0(hook, argv0, dv) ==
    /\ LET dr == IF multi_initialized THEN drive ELSE MultiInit(drive)
           b == calculateBaseDir(hook, argv0)
           set == [dr EXCEPT ![dv].allocator =
                                IF dr[dv].externalAllocator THEN @ ELSE "default",
                             ![dv].locks = TRUE]
       IN  IF dr[dv].initialized
           THEN /\ drive' = SetDriveError(dr, dv, "IS_INITIALIZED")
                /\ dret' = [DriveCall(dv, "init", FALSE) EXCEPT !.base = b.ok, !.argv0 = argv0]
           ELSE IF ~b.ok
           THEN /\ drive' = [set EXCEPT ![dv] = doDeinit(SetDriveError(set, dv, b.err)[dv])]
                /\ dret' = [DriveCall(dv, "init", FALSE) EXCEPT !.base = b.ok, !.argv0 = argv0]
           ELSE /\ drive' = [set EXCEPT ![dv].baseDir = TRUE,
                                        ![dv].initialized = TRUE]
                /\ dret' = [DriveCall(dv, "init", TRUE) EXCEPT !.base = b.ok,
                                                               !.argv0 = argv0]
    /\ multi_initialized' = TRUE
    /\ UNCHANGED <<sanVars, fileVars, mountVars, errVars, lockVars>>

\* PHYSFS_init(argv0, dv) with an argv0 that holds a directory separator.
PHYSFS_init_dv(dv) == PHYSFS_init_argv0(FALSE, "path", dv)

\* PHYSFS_deinit(dv), through doDeinit; every Io flushes.
PHYSFS_deinit_dv(dv) ==
    /\ drive[dv].initialized \/ drive[dv].allocator # "none"
    /\ IF ~drive[dv].initialized
       THEN /\ drive' = SetDriveError(drive, dv, "NOT_INITIALIZED")
            /\ dret' = DriveCall(dv, "deinit", FALSE)
       ELSE /\ drive' = [drive EXCEPT ![dv] = doDeinit(drive[dv])]
            /\ dret' = DriveCall(dv, "deinit", TRUE)
    /\ UNCHANGED multi_initialized
    /\ UNCHANGED <<sanVars, fileVars, mountVars, errVars, lockVars>>

\* PHYSFS_deinit(dv) on a drive that is not initialized and whose
\* allocator[dv] was never set: BAIL_IF hands NOT_INITIALIZED to
\* PHYSFS_setErrorCode, which calls allocator[dv].Malloc, a null pointer to a
\* function.  The call is undefined; the build jumps to address zero and the
\* process ends there.
PHYSFS_deinit_null(dv) ==
    /\ ~drive[dv].initialized
    /\ drive[dv].allocator = "none"
    /\ dret' = [DriveCall(dv, "deinit", FALSE) EXCEPT !.ended = TRUE]
    /\ UNCHANGED <<multi_initialized, drive>>
    /\ UNCHANGED <<sanVars, fileVars, mountVars, errVars, lockVars>>

\* PHYSFS_getLastErrorCode(dv) by the one thread there is.
PHYSFS_getLastErrorCode_dv(dv) ==
    /\ drive' = [drive EXCEPT ![dv].errorStates = "OK"]
    /\ dret' = [DriveCall(dv, "getLastErrorCode", TRUE) EXCEPT
                   !.code = drive[dv].errorStates]
    /\ UNCHANGED multi_initialized
    /\ UNCHANGED <<sanVars, fileVars, mountVars, errVars, lockVars>>

\* PHYSFS_mount(newDir, NULL, 1, dv), through doMount.
PHYSFS_mount_dv(newDir, dv) ==
    /\ drive[dv].initialized
    /\ drive' = IF \E k \in 1..Len(drive[dv].searchPath) : drive[dv].searchPath[k] = newDir
                THEN drive
                ELSE [drive EXCEPT ![dv].searchPath = Append(@, newDir)]
    /\ dret' = DriveCall(dv, "mount", TRUE)
    /\ UNCHANGED multi_initialized
    /\ UNCHANGED <<sanVars, fileVars, mountVars, errVars, lockVars>>

\* PHYSFS_setWriteDir(newDir, dv)
PHYSFS_setWriteDir_dv(newDir, dv) ==
    /\ drive[dv].initialized
    /\ IF drive[dv].writeDir # "" /\ drive[dv].openWriteList # 0
       THEN /\ drive' = SetDriveError(drive, dv, "FILES_STILL_OPEN")
            /\ dret' = DriveCall(dv, "setWriteDir", FALSE)
       ELSE /\ drive' = [drive EXCEPT ![dv].writeDir = newDir]
            /\ dret' = DriveCall(dv, "setWriteDir", TRUE)
    /\ UNCHANGED multi_initialized
    /\ UNCHANGED <<sanVars, fileVars, mountVars, errVars, lockVars>>

\* PHYSFS_openRead(_fname, dv) of a file every mounted directory holds.
PHYSFS_openRead_dv(dv) ==
    /\ drive[dv].initialized
    /\ drive[dv].openReadList < MaxOpen
    /\ IF drive[dv].searchPath = <<>>
       THEN /\ drive' = SetDriveError(drive, dv, "NOT_FOUND")
            /\ dret' = DriveCall(dv, "openRead", FALSE)
       ELSE /\ drive' = [drive EXCEPT ![dv].openReadList = @ + 1]
            /\ dret' = DriveCall(dv, "openRead", TRUE)
    /\ UNCHANGED multi_initialized
    /\ UNCHANGED <<sanVars, fileVars, mountVars, errVars, lockVars>>

\* PHYSFS_openWrite(filename, dv)
PHYSFS_openWrite_dv(dv) ==
    /\ drive[dv].initialized
    /\ drive[dv].openWriteList < MaxOpen
    /\ IF drive[dv].writeDir = ""
       THEN /\ drive' = SetDriveError(drive, dv, "NO_WRITE_DIR")
            /\ dret' = DriveCall(dv, "openWrite", FALSE)
       ELSE /\ drive' = [drive EXCEPT ![dv].openWriteList = @ + 1]
            /\ dret' = DriveCall(dv, "openWrite", TRUE)
    /\ UNCHANGED multi_initialized
    /\ UNCHANGED <<sanVars, fileVars, mountVars, errVars, lockVars>>

\* PHYSFS_close(handle, dv) of a handle of the read list (reading) or of the
\* write list; every Io flushes.
PHYSFS_close_dv(reading, dv) ==
    /\ drive[dv].initialized
    /\ IF reading THEN drive[dv].openReadList > 0 ELSE drive[dv].openWriteList > 0
    /\ drive' = IF reading THEN [drive EXCEPT ![dv].openReadList = @ - 1]
                ELSE [drive EXCEPT ![dv].openWriteList = @ - 1]
    /\ dret' = DriveCall(dv, "close", TRUE)
    /\ UNCHANGED multi_initialized
    /\ UNCHANGED <<sanVars, fileVars, mountVars, errVars, lockVars>>

\* PHYSFS_permitSymbolicLinks(allow, dv)
PHYSFS_permitSymbolicLinks_dv(allow, dv) ==
    /\ drive' = [drive EXCEPT ![dv].allowSymLinks = allow]
    /\ dret' = DriveCall(dv, "permitSymbolicLinks", TRUE)
    /\ UNCHANGED multi_initialized
    /\ UNCHANGED <<sanVars, fileVars, mountVars, errVars, lockVars>>

InitDrives ==
    /\ sanIn = <<>>
    /\ sanRes = NotRun
    /\ TreeIdle
    /\ FileIdle
    /\ MountIdle
    /\ OtherIdle

\* A call in a specification that keeps no record of the allocators chosen.
Keeps(call) == call /\ UNCHANGED chosen

NextDrives ==
    \E dv \in Drives :
        \/ \E a \in BOOLEAN : Keeps(PHYSFS_setAllocator(a, dv))
        \/ Keeps(PHYSFS_init_dv(dv))
        \/ Keeps(PHYSFS_deinit_dv(dv))
        \/ Keeps(PHYSFS_mount_dv("A", dv))
        \/ \E d \in WriteDirNames : Keeps(PHYSFS_setWriteDir_dv(d, dv))
        \/ Keeps(PHYSFS_openRead_dv(dv))
        \/ Keeps(PHYSFS_openWrite_dv(dv))
        \/ \E reading \in BOOLEAN : Keeps(PHYSFS_close_dv(reading, dv))
        \/ \E allow \in BOOLEAN : Keeps(PHYSFS_permitSymbolicLinks_dv(allow, dv))

SpecDrives == InitDrives /\ [][NextDrives]_vars

\* ============================================================= SpecBoot
\* The life of the drives from the start of the process: the allocator, init
\* with what the platform and argv0 give, deinit, and the error code the
\* calls leave.  Nothing is called once the process has ended.
\* What the call that was just made leaves in chosen.
ChosenAfter ==
    IF dret'.op = "setAllocator" /\ dret'.ok
    THEN [chosen EXCEPT ![dret'.dv] = drive'[dret'.dv].externalAllocator]
    ELSE chosen

\* A call while the process runs, and the record of the allocator chosen.
Records(call) ==
    /\ ~dret.ended
    /\ call
    /\ chosen' = ChosenAfter

NextBoot ==
    \E dv \in Drives :
        \/ \E a \in BOOLEAN : Records(PHYSFS_setAllocator(a, dv))
        \/ \E hook \in BOOLEAN : \E argv0 \in Argv0s :
              Records(PHYSFS_init_argv0(hook, argv0, dv))
        \/ Records(PHYSFS_deinit_dv(dv))
        \/ Records(PHYSFS_deinit_null(dv))
        \/ Records(PHYSFS_getLastErrorCode_dv(dv))
        \/ Records(PHYSFS_mount_dv("A", dv))
        \/ \E d \in WriteDirNames : Records(PHYSFS_setWriteDir_dv(d, dv))

SpecBoot == InitDrives /\ [][NextBoot]_vars

\* ============================================================== SpecErr
\* The threads of one drive; they call while the drive is initialized
\* (errorLock[dv] exists).
\* Each thread is in at most one call; a step is what the thread does between
\* two points where another thread can run and see a difference.

\* i->tid == tid
TidMatches(itid, tid) == itid = tid

\* The loop of findErrorForCurrentThread: the first ErrState of the list, from
\* place k on, whose tid is the caller's; 0 for NULL.
RECURSIVE FindFrom(_, _)
FindFrom(k, tid) ==
    IF k > Len(errorStates) THEN 0
    ELSE IF TidMatches(errHeap[errorStates[k]].tid, tid) THEN errorStates[k]
    ELSE FindFrom(k + 1, tid)

\* if (!errcode) return;
IsNoErrorNever(errcode) == FALSE
IsNoError(errcode) == errcode = "OK"

ThreadReturn(t, op, val) ==
    [tret EXCEPT ![t] = [op |-> op, val |-> val, own |-> pend[t], ownAll |-> pendAll[t]]]

\* PHYSFS_setErrorCode(errcode, dv): entry, up to the call of
\* findErrorForCurrentThread.
PHYSFS_setErrorCode(t, errcode) ==
    /\ tpc[t] = "idle"
    /\ drive[TheDrive].initialized
    /\ \A u \in Threads : tcall[u] # "deinit"
    /\ IF IsNoError(errcode)
       THEN /\ tret' = ThreadReturn(t, "set", errcode)
            /\ UNCHANGED <<tpc, ttop, targ, pendAll>>
       ELSE /\ tpc' = [tpc EXCEPT ![t] = "find"]
            /\ ttop' = [ttop EXCEPT ![t] = "set"]
            /\ targ' = [targ EXCEPT ![t] = errcode]
            /\ pendAll' = [pendAll EXCEPT ![t] = errcode]
            /\ UNCHANGED tret
    /\ UNCHANGED <<errorStates, errHeap, errorLock, terr, pend, tcont>>
    /\ UNCHANGED <<sanVars, fileVars, mountVars, driveVars, lockVars>>

\* PHYSFS_getLastErrorCode(dv): entry.
PHYSFS_getLastErrorCode(t) ==
    /\ tpc[t] = "idle"
    /\ drive[TheDrive].initialized
    /\ \A u \in Threads : tcall[u] # "deinit"
    /\ tpc' = [tpc EXCEPT ![t] = "find"]
    /\ ttop' = [ttop EXCEPT ![t] = "get"]
    /\ UNCHANGED <<errorStates, errHeap, errorLock, targ, terr, tret, pend, pendAll, tcont>>
    /\ UNCHANGED <<sanVars, fileVars, mountVars, driveVars, lockVars>>

\* findErrorForCurrentThread: __PHYSFS_platformGrabMutex(errorLock[dv])
findError_Grab(t) ==
    /\ tpc[t] = "find"
    /\ errorLock = NoThread
    /\ errorLock' = t
    /\ tpc' = [tpc EXCEPT ![t] = "search"]
    /\ UNCHANGED <<errorStates, errHeap, ttop, targ, terr, tret, pend, pendAll, tcont>>
    /\ UNCHANGED <<sanVars, fileVars, mountVars, driveVars, lockVars>>

\* __PHYSFS_platformReleaseMutex(errorLock[dv]) in findErrorForCurrentThread
ErrorLockKept(t) == t
ErrorLockAfterFind(t) == NoThread

\* The error routine returns: its argument and its locals are gone.
ErrorRoutineReturns(t) ==
    /\ ttop' = [ttop EXCEPT ![t] = "none"]
    /\ targ' = [targ EXCEPT ![t] = "OK"]
    /\ terr' = [terr EXCEPT ![t] = 0]

\* findErrorForCurrentThread: the search, the release of the mutex and the
\* return to the caller.
findError_Search(t) ==
    /\ tpc[t] = "search"
    /\ errorLock = t
    /\ LET i == FindFrom(1, t)
       IN  IF ttop[t] = "cur"
           THEN /\ tpc' = [tpc EXCEPT ![t] = tcont[t]]
                /\ ErrorRoutineReturns(t)
           ELSE /\ terr' = [terr EXCEPT ![t] = i]
                /\ tpc' = [tpc EXCEPT ![t] = IF ttop[t] = "get" THEN "read"
                                             ELSE IF i = 0 THEN "malloc" ELSE "store"]
                /\ UNCHANGED <<ttop, targ>>
    /\ errorLock' = ErrorLockAfterFind(t)
    /\ UNCHANGED <<errorStates, errHeap, tret, pend, pendAll, tcont>>
    /\ UNCHANGED <<sanVars, fileVars, mountVars, driveVars, lockVars>>

\* PHYSFS_getLastErrorCode: retval = err ? err->code : OK; reset; return.
getLastErrorCode_Read(t) ==
    /\ tpc[t] = "read"
    /\ LET retval == IF terr[t] # 0 THEN errHeap[terr[t]].code ELSE "OK"
       IN  tret' = ThreadReturn(t, "get", retval)
    /\ errHeap' = IF terr[t] # 0 THEN [errHeap EXCEPT ![terr[t]].code = "OK"] ELSE errHeap
    /\ tpc' = [tpc EXCEPT ![t] = "idle"]
    /\ pend' = [pend EXCEPT ![t] = "OK"]
    /\ pendAll' = [pendAll EXCEPT ![t] = "OK"]
    /\ ErrorRoutineReturns(t)
    /\ UNCHANGED <<errorStates, errorLock, tcont>>
    /\ UNCHANGED <<sanVars, fileVars, mountVars, driveVars, lockVars>>

\* PHYSFS_setErrorCode: allocator[dv].Malloc(sizeof (ErrState)), which gives
\* memory (ok) or NULL; memset; err->tid = the caller.
setErrorCode_Malloc(t, ok) ==
    /\ tpc[t] = "malloc"
    /\ IF ok
       THEN /\ errHeap' = Append(errHeap, [tid |-> t, code |-> "OK"])
            /\ terr' = [terr EXCEPT ![t] = Len(errHeap) + 1]
            /\ tpc' = [tpc EXCEPT ![t] = "link"]
            /\ UNCHANGED <<tret, ttop, targ>>
       ELSE /\ tret' = IF tcont[t] = "idle" THEN ThreadReturn(t, "set", targ[t]) ELSE tret
            /\ tpc' = [tpc EXCEPT ![t] = tcont[t]]
            /\ ErrorRoutineReturns(t)
            /\ UNCHANGED errHeap
    /\ UNCHANGED <<errorStates, errorLock, pend, pendAll, tcont>>
    /\ UNCHANGED <<sanVars, fileVars, mountVars, driveVars, lockVars>>

\* PHYSFS_setErrorCode: __PHYSFS_platformGrabMutex(errorLock[dv])
setErrorCode_Grab(t) ==
    /\ tpc[t] = "link"
    /\ errorLock = NoThread
    /\ errorLock' = t
    /\ tpc' = [tpc EXCEPT ![t] = "linked"]
    /\ UNCHANGED <<errorStates, errHeap, ttop, targ, terr, tret, pend, pendAll, tcont>>
    /\ UNCHANGED <<sanVars, fileVars, mountVars, driveVars, lockVars>>

\* PHYSFS_setErrorCode: err->next = errorStates[dv]; errorStates[dv] = err;
\* and the release of the mutex.
setErrorCode_Link(t) ==
    /\ tpc[t] = "linked"
    /\ errorLock = t
    /\ errorStates' = <<terr[t]>> \o errorStates
    /\ errorLock' = NoThread
    /\ tpc' = [tpc EXCEPT ![t] = "store"]
    /\ UNCHANGED <<errHeap, ttop, targ, terr, tret, pend, pendAll, tcont>>
    /\ UNCHANGED <<sanVars, fileVars, mountVars, driveVars, lockVars>>

\* PHYSFS_setErrorCode: err->code = errcode; return.
setErrorCode_Store(t) ==
    /\ tpc[t] = "store"
    /\ errHeap' = [errHeap EXCEPT ![terr[t]].code = targ[t]]
    /\ pend' = [pend EXCEPT ![t] = targ[t]]
    /\ tret' = IF tcont[t] = "idle"
               THEN [tret EXCEPT ![t] = [op |-> "set", val |-> targ[t],
                                         own |-> targ[t], ownAll |-> pendAll[t]]]
               ELSE tret
    /\ tpc' = [tpc EXCEPT ![t] = tcont[t]]
    /\ ErrorRoutineReturns(t)
    /\ UNCHANGED <<errorStates, errorLock, pendAll, tcont>>
    /\ UNCHANGED <<sanVars, fileVars, mountVars, driveVars, lockVars>>

InitErr ==
    /\ sanIn = <<>>
    /\ sanRes = NotRun
    /\ TreeIdle
    /\ FileIdle
    /\ MountIdle
    /\ DriveReady
    /\ ErrIdle
    /\ LocksIdle

NextErr ==
    \E t \in Threads :
        \/ \E errcode \in ErrorCodes : PHYSFS_setErrorCode(t, errcode)
        \/ PHYSFS_getLastErrorCode(t)
        \/ findError_Grab(t)
        \/ findError_Search(t)
        \/ getLastErrorCode_Read(t)
        \/ \E ok \in BOOLEAN : setErrorCode_Malloc(t, ok)
        \/ setErrorCode_Grab(t)
        \/ setErrorCode_Link(t)
        \/ setErrorCode_Store(t)

SpecErr == InitErr /\ [][NextErr]_vars

\* ============================================================ SpecLocks
\* The threads of one drive inside the calls that take stateLock[dv], the
\* calls that touch the drive's state without it, and PHYSFS_deinit and
\* PHYSFS_init. The application calls while the drive is initialized, and
\* calls PHYSFS_deinit while no other thread is inside a call: PHYSFS_deinit
\* destroys the mutexes, whatever other threads hold or wait for.

\* The calls that take stateLock[dv] around their work.
LockedCalls == {"mount", "openRead", "enumerate"}

Quiet(t) == \A u \in Threads \ {t} : tpc[u] = "idle"
NoDeinit == \A u \in Threads : tcall[u] # "deinit"

Access(t, item, write) ==
    [item |-> item, write |-> write,
     held |-> IF item = "errorStates" THEN errorLock = t ELSE stateLock = t]

\* PHYSFS_mount, PHYSFS_openRead, PHYSFS_enumerate: entry, up to
\* __PHYSFS_platformGrabMutex(stateLock[dv]).
EnterLocked(t, call) ==
    /\ tpc[t] = "idle"
    /\ drive[TheDrive].initialized
    /\ NoDeinit
    /\ tcall' = [tcall EXCEPT ![t] = call]
    /\ tpc' = [tpc EXCEPT ![t] = "grab"]
    /\ UNCHANGED <<stateLock, acc>>
    /\ UNCHANGED <<errorStates, errHeap, errorLock, ttop, targ, terr, tret, pend, pendAll, tcont>>
    /\ UNCHANGED <<sanVars, fileVars, mountVars, driveVars>>

\* __PHYSFS_platformGrabMutex(stateLock[dv])
platformGrabMutex(t) ==
    /\ tpc[t] = "grab"
    /\ stateLock = NoThread
    /\ stateLock' = t
    /\ tpc' = [tpc EXCEPT ![t] = "body"]
    /\ UNCHANGED <<tcall, acc>>
    /\ UNCHANGED <<errorStates, errHeap, errorLock, ttop, targ, terr, tret, pend, pendAll, tcont>>
    /\ UNCHANGED <<sanVars, fileVars, mountVars, driveVars>>

\* The thread calls PHYSFS_setErrorCode(errcode, dv) and goes on at cont.
BailTo(t, errcode, cont) ==
    /\ tpc' = [tpc EXCEPT ![t] = "find"]
    /\ ttop' = [ttop EXCEPT ![t] = "set"]
    /\ targ' = [targ EXCEPT ![t] = errcode]
    /\ pendAll' = [pendAll EXCEPT ![t] = errcode]
    /\ tcont' = [tcont EXCEPT ![t] = cont]

\* The thread calls currentErrorCode(dv) and goes on at cont.
CurrentTo(t, cont) ==
    /\ tpc' = [tpc EXCEPT ![t] = "find"]
    /\ ttop' = [ttop EXCEPT ![t] = "cur"]
    /\ tcont' = [tcont EXCEPT ![t] = cont]
    /\ UNCHANGED <<targ, pendAll>>

GoTo(t, pc) ==
    /\ tpc' = [tpc EXCEPT ![t] = pc]
    /\ UNCHANGED <<ttop, targ, pendAll, tcont>>

\* doMount between the grab and the release of stateLock[dv].
doMount_Body(t) ==
    /\ tpc[t] = "body"
    /\ tcall[t] = "mount"
    /\ drive' = IF \E k \in 1..Len(drive[TheDrive].searchPath) :
                       drive[TheDrive].searchPath[k] = "A"
                THEN drive
                ELSE [drive EXCEPT ![TheDrive].searchPath = Append(@, "A")]
    /\ acc' = Access(t, "searchPath", TRUE)
    /\ GoTo(t, "release")
    /\ UNCHANGED <<multi_initialized, dret, chosen, stateLock, tcall>>
    /\ UNCHANGED <<errorStates, errHeap, errorLock, terr, tret, pend>>
    /\ UNCHANGED <<sanVars, fileVars, mountVars>>

\* PHYSFS_openRead between the grab and openReadEnd: with no search path, or
\* with no archive that opens the file (MaxOpen handles are open), NOT_FOUND
\* is set while stateLock[dv] is held.
openRead_Body(t) ==
    /\ tpc[t] = "body"
    /\ tcall[t] = "openRead"
    /\ acc' = Access(t, "searchPath", TRUE)
    /\ IF drive[TheDrive].searchPath = <<>>
       THEN /\ BailTo(t, "NOT_FOUND", "release")
            /\ UNCHANGED drive
       ELSE IF drive[TheDrive].openReadList >= MaxOpen
       THEN /\ BailTo(t, "NOT_FOUND", "release")
            /\ UNCHANGED drive
       ELSE /\ GoTo(t, "release")
            /\ drive' = [drive EXCEPT ![TheDrive].openReadList = @ + 1]
    /\ UNCHANGED <<multi_initialized, dret, chosen, stateLock, tcall>>
    /\ UNCHANGED <<errorStates, errHeap, errorLock, terr, tret, pend>>
    /\ UNCHANGED <<sanVars, fileVars, mountVars>>

\* PHYSFS_enumerate between the grab and the release: when the archiver's
\* stat of the directory fails (~found), currentErrorCode(dv) is asked.
enumerate_Body(t, found) ==
    /\ tpc[t] = "body"
    /\ tcall[t] = "enumerate"
    /\ acc' = Access(t, "searchPath", FALSE)
    /\ IF drive[TheDrive].searchPath = <<>> \/ found
       THEN GoTo(t, "release")
       ELSE CurrentTo(t, "release")
    /\ UNCHANGED <<driveVars, stateLock, tcall>>
    /\ UNCHANGED <<errorStates, errHeap, errorLock, terr, tret, pend>>
    /\ UNCHANGED <<sanVars, fileVars, mountVars>>

\* __PHYSFS_platformReleaseMutex(stateLock[dv])
StateLockKept(t) == t
StateLockAfterRelease(t) == NoThread

\* The release of stateLock[dv] and the return of the call; PHYSFS_deinit goes
\* on after its PHYSFS_setWriteDir(NULL).
platformReleaseMutex(t) ==
    /\ tpc[t] = "release"
    /\ stateLock = t
    /\ stateLock' = StateLockAfterRelease(t)
    /\ IF tcall[t] = "deinit"
       THEN /\ tpc' = [tpc EXCEPT ![t] = "freeSearchPath"]
            /\ UNCHANGED tcall
       ELSE /\ tpc' = [tpc EXCEPT ![t] = "idle"]
            /\ tcall' = [tcall EXCEPT ![t] = "none"]
    /\ tcont' = [tcont EXCEPT ![t] = "idle"]
    /\ UNCHANGED acc
    /\ UNCHANGED <<errorStates, errHeap, errorLock, ttop, targ, terr, tret, pend, pendAll>>
    /\ UNCHANGED <<sanVars, fileVars, mountVars, driveVars>>

\* PHYSFS_permitSymbolicLinks(allow, dv)
PHYSFS_permitSymbolicLinks_t(t, allow) ==
    /\ tpc[t] = "idle"
    /\ drive[TheDrive].initialized
    /\ NoDeinit
    /\ drive' = [drive EXCEPT ![TheDrive].allowSymLinks = allow]
    /\ acc' = Access(t, "allowSymLinks", TRUE)
    /\ UNCHANGED <<multi_initialized, dret, chosen, stateLock, tcall>>
    /\ UNCHANGED <<errVars, sanVars, fileVars, mountVars>>

\* PHYSFS_symbolicLinksPermitted(dv)
PHYSFS_symbolicLinksPermitted_t(t) ==
    /\ tpc[t] = "idle"
    /\ drive[TheDrive].initialized
    /\ NoDeinit
    /\ acc' = Access(t, "allowSymLinks", FALSE)
    /\ UNCHANGED <<driveVars, stateLock, tcall>>
    /\ UNCHANGED <<errVars, sanVars, fileVars, mountVars>>

\* PHYSFS_stat("", stat, dv): the root, read only unless there is a writeDir.
PHYSFS_stat_root(t) ==
    /\ tpc[t] = "idle"
    /\ drive[TheDrive].initialized
    /\ NoDeinit
    /\ acc' = Access(t, "writeDir", FALSE)
    /\ UNCHANGED <<driveVars, stateLock, tcall>>
    /\ UNCHANGED <<errVars, sanVars, fileVars, mountVars>>

\* PHYSFS_deinit(dv), doDeinit: closeFileHandleList(&openWriteList[dv]), up
\* to the grab in PHYSFS_setWriteDir(NULL, dv).
deinit_CloseWriteList(t) ==
    /\ tpc[t] = "idle"
    /\ drive[TheDrive].initialized
    /\ Quiet(t)
    /\ drive' = [drive EXCEPT ![TheDrive].openWriteList = 0]
    /\ acc' = Access(t, "openWriteList", TRUE)
    /\ tcall' = [tcall EXCEPT ![t] = "deinit"]
    /\ tpc' = [tpc EXCEPT ![t] = "grab"]
    /\ UNCHANGED <<multi_initialized, dret, chosen, stateLock>>
    /\ UNCHANGED <<errorStates, errHeap, errorLock, ttop, targ, terr, tret, pend, pendAll, tcont>>
    /\ UNCHANGED <<sanVars, fileVars, mountVars>>

\* PHYSFS_setWriteDir(NULL, dv) between the grab and the release.
setWriteDir_Body(t) ==
    /\ tpc[t] = "body"
    /\ tcall[t] = "deinit"
    /\ drive' = [drive EXCEPT ![TheDrive].writeDir = ""]
    /\ acc' = Access(t, "writeDir", TRUE)
    /\ GoTo(t, "release")
    /\ UNCHANGED <<multi_initialized, dret, chosen, stateLock, tcall>>
    /\ UNCHANGED <<errorStates, errHeap, errorLock, terr, tret, pend>>
    /\ UNCHANGED <<sanVars, fileVars, mountVars>>

\* doDeinit: freeSearchPath(dv)
deinit_freeSearchPath(t) ==
    /\ tpc[t] = "freeSearchPath"
    /\ drive' = [drive EXCEPT ![TheDrive].openReadList = 0, ![TheDrive].searchPath = <<>>]
    /\ acc' = Access(t, "searchPath", TRUE)
    /\ GoTo(t, "freeErrorStates")
    /\ UNCHANGED <<multi_initialized, dret, chosen, stateLock, tcall>>
    /\ UNCHANGED <<errorStates, errHeap, errorLock, terr, tret, pend>>
    /\ UNCHANGED <<sanVars, fileVars, mountVars>>

\* doDeinit: freeErrorStates(dv)
deinit_freeErrorStates(t) ==
    /\ tpc[t] = "freeErrorStates"
    /\ errorStates' = <<>>
    /\ errHeap' = <<>>
    /\ pend' = [u \in Threads |-> "OK"]
    /\ pendAll' = [u \in Threads |-> "OK"]
    /\ acc' = Access(t, "errorStates", TRUE)
    /\ tpc' = [tpc EXCEPT ![t] = "destroy"]
    /\ UNCHANGED <<driveVars, stateLock, tcall>>
    /\ UNCHANGED <<errorLock, ttop, targ, terr, tret, tcont>>
    /\ UNCHANGED <<sanVars, fileVars, mountVars>>

\* doDeinit: allowSymLinks[dv] = 0; initialized[dv] = 0; both mutexes are
\* destroyed; return.
deinit_Destroy(t) ==
    /\ tpc[t] = "destroy"
    /\ drive' = [drive EXCEPT ![TheDrive].allowSymLinks = FALSE,
                              ![TheDrive].initialized = FALSE,
                              ![TheDrive].locks = FALSE]
    /\ acc' = Access(t, "allowSymLinks", TRUE)
    /\ tpc' = [tpc EXCEPT ![t] = "idle"]
    /\ tcall' = [tcall EXCEPT ![t] = "none"]
    /\ UNCHANGED <<multi_initialized, dret, chosen, stateLock>>
    /\ UNCHANGED <<errorStates, errHeap, errorLock, ttop, targ, terr, tret, pend, pendAll, tcont>>
    /\ UNCHANGED <<sanVars, fileVars, mountVars>>

\* PHYSFS_init(argv0, dv) on the deinitialized drive.
PHYSFS_init_t(t) ==
    /\ tpc[t] = "idle"
    /\ ~drive[TheDrive].initialized
    /\ Quiet(t)
    /\ drive' = [drive EXCEPT ![TheDrive].initialized = TRUE, ![TheDrive].locks = TRUE]
    /\ UNCHANGED <<multi_initialized, dret, chosen, lockVars>>
    /\ UNCHANGED <<errVars, sanVars, fileVars, mountVars>>

InitLocks ==
    /\ sanIn = <<>>
    /\ sanRes = NotRun
    /\ TreeIdle
    /\ FileIdle
    /\ MountIdle
    /\ DriveReady
    /\ ErrIdle
    /\ LocksIdle

\* What a thread does once it is inside a call.
ThreadGoesOn(t) ==
    \/ platformGrabMutex(t)
    \/ doMount_Body(t)
    \/ openRead_Body(t)
    \/ \E found \in BOOLEAN : enumerate_Body(t, found)
    \/ setWriteDir_Body(t)
    \/ platformReleaseMutex(t)
    \/ deinit_freeSearchPath(t)
    \/ deinit_freeErrorStates(t)
    \/ deinit_Destroy(t)
    \/ findError_Grab(t)
    \/ findError_Search(t)
    \/ \E ok \in BOOLEAN : setErrorCode_Malloc(t, ok)
    \/ setErrorCode_Grab(t)
    \/ setErrorCode_Link(t)
    \/ setErrorCode_Store(t)

ThreadCalls(t) ==
    \/ \E call \in LockedCalls : EnterLocked(t, call)
    \/ \E allow \in BOOLEAN : PHYSFS_permitSymbolicLinks_t(t, allow)
    \/ PHYSFS_symbolicLinksPermitted_t(t)
    \/ PHYSFS_stat_root(t)
    \/ deinit_CloseWriteList(t)
    \/ PHYSFS_init_t(t)

NextLocks == \E t \in Threads : ThreadCalls(t) \/ ThreadGoesOn(t)

SpecLocks == InitLocks /\ [][NextLocks]_vars

\* The calls that take the locks, on a drive that stays initialized, under
\* fair scheduling: a thread inside a call goes on, and a thread that waits
\* for a mutex that is free again and again gets it.
NextLive ==
    \E t \in Threads :
        \/ \E call \in LockedCalls : EnterLocked(t, call)
        \/ platformGrabMutex(t)
        \/ doMount_Body(t)
        \/ openRead_Body(t)
        \/ \E found \in BOOLEAN : enumerate_Body(t, found)
        \/ platformReleaseMutex(t)
        \/ findError_Grab(t)
        \/ findError_Search(t)
        \/ \E ok \in BOOLEAN : setErrorCode_Malloc(t, ok)
        \/ setErrorCode_Grab(t)
        \/ setErrorCode_Link(t)
        \/ setErrorCode_Store(t)

SpecLive ==
    /\ InitLocks
    /\ [][NextLive]_vars
    /\ \A t \in Threads :
        /\ WF_vars(ThreadGoesOn(t))
        /\ SF_vars(platformGrabMutex(t))
        /\ SF_vars(findError_Grab(t))
        /\ SF_vars(setErrorCode_Grab(t))

\* ------------------------------------------------------- SpecSanitize
InitSanitize ==
    /\ sanIn \in StringsUpTo(MaxLen)
    /\ sanRes = NotRun
    /\ TreeIdle
    /\ FileIdle
    /\ MountIdle
    /\ OtherIdle

DoSanitize ==
    /\ sanRes = NotRun
    /\ sanRes' = sanitizePlatformIndependentPath(sanIn)
    /\ UNCHANGED <<sanIn, dt, dtret>>
    /\ UNCHANGED <<fileVars, mountVars, otherVars>>

NextSanitize == DoSanitize

SpecSanitize == InitSanitize /\ [][NextSanitize]_vars

\* ------------------------------------------- what the claims speak of
\* The '/'-separated segments of a string, empty ones included.
RECURSIVE Segments(_)
Segments(s) ==
    IF \A k \in 1..Len(s) : s[k] # "/" THEN <<s>>
    ELSE LET k == CHOOSE j \in 1..Len(s) : s[j] = "/" /\ \A m \in 1..(j - 1) : s[m] # "/"
         IN <<SubSeq(s, 1, k - 1)>> \o Segments(SubSeq(s, k + 1, Len(s)))

RECURSIVE JoinSlash(_)
JoinSlash(segs) ==
    IF segs = <<>> THEN <<>>
    ELSE IF Len(segs) = 1 THEN segs[1]
    ELSE segs[1] \o <<"/">> \o JoinSlash(Tail(segs))

NonEmptySegments(s) == SelectSeq(Segments(s), LAMBDA g : g # <<>>)

\* s with leading slashes stripped, runs of '/' collapsed, trailing slashes dropped.
Normalized(s) == JoinSlash(NonEmptySegments(s))

HasIllegalChar(s) == \E k \in 1..Len(s) : s[k] = ":" \/ s[k] = "\\"
HasDotSegment(s) == \E k \in 1..Len(Segments(s)) : IsDotOrDotDot(Segments(s)[k])
HasDotDotSegment(s) == \E k \in 1..Len(Segments(s)) : Segments(s)[k] = DOTDOT
HasDoubleSlash(s) == \E k \in 1..(Len(s) - 1) : s[k] = "/" /\ s[k + 1] = "/"

SanitizeRan == sanRes # NotRun

\* C2: sanitize(s) fails if and only if s contains ':' or '\', or some
\* '/'-separated segment of s, the last one included, is exactly '.' or '..'.
C2_RejectsIffIllegal ==
    SanitizeRan => (~sanRes.ok <=> (HasIllegalChar(sanIn) \/ HasDotSegment(sanIn)))

\* C3: for every accepted input the output does not start or end with '/',
\* has no '//', is NUL-terminated within strlen(s) + 1 bytes, and is s with
\* leading slashes stripped, runs of '/' collapsed and trailing slashes dropped.
C3_AcceptedOutputNormal ==
    (SanitizeRan /\ sanRes.ok) =>
        /\ sanRes.out = Normalized(sanIn)
        /\ (sanRes.out # <<>> => sanRes.out[1] # "/" /\ sanRes.out[Len(sanRes.out)] # "/")
        /\ ~HasDoubleSlash(sanRes.out)
        /\ sanRes.wr <= Len(sanIn) + 1
        /\ Len(sanRes.out) + 1 <= Len(sanIn) + 1
        /\ sanRes.buf[Len(sanRes.out) + 1] = NUL

\* An accepted input with a leading slash, a run of slashes and a trailing slash.
C3_Witness ==
    /\ sanIn = <<"/", "a", "/", "/", "a", "/">>
    /\ sanRes.ok
    /\ sanRes.out = <<"a", "/", "a">>

\* C4: with an Io that accepts every write in full, whatever the split into
\* writeBytes calls and whatever setBuffer is applied, the closed file holds
\* exactly the bytes written, and every readBytes of the reopened file (no
\* allocation having failed on the handle) returns the bytes written at the
\* caller's position, in order, at least one while bytes remain.
C4_RoundTrip ==
    ioFull =>
        /\ (fh.mode \in {"wclosed", "r", "rclosed"} => disk = expect)
        /\ (fh.mode = "r" /\ ~fh.oom /\ fret.op = "readBytes") =>
              /\ fret.ok
              /\ fret.rv <= fret.want
              /\ fret.data = Slice(expect, fret.at, fret.at + fret.rv)
              /\ (fret.at < Len(expect) => fret.rv >= 1)
              /\ lpos = fret.at + fret.rv

\* All of MaxBytes bytes read back in one call through a read buffer smaller
\* than the file.
C4_Witness ==
    /\ ioFull
    /\ fh.mode = "r"
    /\ ~fh.oom
    /\ fh.hasBuf
    /\ fh.bufsize = 2
    /\ fret.op = "readBytes"
    /\ fret.at = 0
    /\ Len(fret.data) = MaxBytes
    /\ fret.data = expect

\* C5: after a successful readBytes, writeBytes, seek or flush on an open read
\* handle, tell() is the offset of the next byte readBytes returns.
C5_TellIsNextByteRead ==
    [][(/\ IsOpen
        /\ fh.forReading
        /\ fret.ok
        /\ fret.op \in {"readBytes", "writeBytes", "seek", "flush"}
        /\ fret'.op = "readBytes"
        /\ fret'.rv > 0)
       => fret'.data = Slice(disk, PHYSFS_tell(fh, iopos), PHYSFS_tell(fh, iopos) + fret'.rv)]_vars

\* C6: on a buffered read handle, seek(pos) with pos in the buffered range
\* [tell - bufpos, tell - bufpos + buffill] succeeds, leaves the Io cursor,
\* buffill and the buffer contents alone and makes tell() = pos; with any other
\* pos it empties the buffer (buffill = bufpos = 0) and raw-seeks the Io to pos.
C6_SeekFrame ==
    [][(/\ IsOpen
        /\ fh.forReading
        /\ fh.hasBuf
        /\ fret'.op = "seek")
       => LET pos == fret'.pos
              lo == PHYSFS_tell(fh, iopos) - fh.bufpos
              hi == lo + fh.buffill
          IN  IF lo <= pos /\ pos <= hi
              THEN /\ fret'.ok
                   /\ iopos' = iopos
                   /\ fh'.buffill = fh.buffill
                   /\ fh'.buffer = fh.buffer
                   /\ fh'.bufsize = fh.bufsize
                   /\ PHYSFS_tell(fh', iopos') = pos
              ELSE /\ fh'.buffill = 0
                   /\ fh'.bufpos = 0
                   /\ fh'.buffer = fh.buffer
                   /\ fret'.ok
                   /\ iopos' = pos]_vars

\* A seek back inside a partly consumed buffer, and none of it was refilled.
C6_Witness ==
    /\ fh.mode = "r"
    /\ fh.hasBuf
    /\ fret.op = "seek"
    /\ fret.ok
    /\ fh.buffill = MaxBytes
    /\ fh.bufpos = 1
    /\ iopos = MaxBytes
    /\ fret.pos = 1
    /\ lpos = 1

\* ------------------------------------------------- the mount stack
\* The sanitized form of the name the last call was given.
RetName == sanitizePlatformIndependentPath(ret.arg)

\* The mountpoint mp (NULL for "/") admits the sanitized name p: p is the
\* mountpoint or lies under it.
Admits(mp, p) ==
    \/ mp = <<>>
    \/ p = SubSeq(mp, 1, Len(mp) - 1)
    \/ Len(p) > Len(mp) /\ SubSeq(p, 1, Len(mp)) = mp

\* p relative to the mountpoint that admits it.
ArcName(mp, p) ==
    IF mp = <<>> THEN p
    ELSE IF Len(p) < Len(mp) THEN <<>>
    ELSE SubSeq(p, Len(mp) + 1, Len(p))

\* The names of the segments of name, each with the segments before it.
SegmentPrefixes(name) ==
    {SubSeq(name, 1, k - 1) : k \in {j \in 1..Len(name) : name[j] = "/"}} \cup {name}

\* A segment of the name is a symbolic link in the directory.
HasSymlinkSegment(dirName, name) ==
    \E q \in SegmentPrefixes(name) : DIR_stat(dirName, q) = "symlink"

\* The DirHandle at cell i has p under its mountpoint and a symbolic link on
\* the way to it.
SymlinkOnPath(i, p) ==
    /\ Admits(dhs[i].mountPoint, p)
    /\ HasSymlinkSegment(dhs[i].dirName, ArcName(dhs[i].mountPoint, p))

\* The DirHandle at cell i resolves p: its mountpoint admits p, the symbolic
\* link policy lets p through, and its archiver opens it.
Resolves(i, p) ==
    /\ Admits(dhs[i].mountPoint, p)
    /\ allowSymLinks \/ ~SymlinkOnPath(i, p)
    /\ DIR_openRead(dhs[i].dirName, ArcName(dhs[i].mountPoint, p))

\* The first DirHandle of the search path that resolves p, 0 when none does.
FirstResolving(p) ==
    IF \E k \in 1..Len(searchPath) : Resolves(searchPath[k], p)
    THEN searchPath[CHOOSE k \in 1..Len(searchPath) :
                       /\ Resolves(searchPath[k], p)
                       /\ \A j \in 1..(k - 1) : ~Resolves(searchPath[j], p)]
    ELSE 0

\* The handles of both open lists.
OpenHandles == Range(openReadList) \cup Range(openWriteList)

\* C1: openRead of a name with a '..' segment, wherever the segment is,
\* returns null with BAD_FILENAME, leaves openReadList alone and hands the
\* archiver no name with a '..' segment.
C1_DotDotRefused ==
    [][(ret'.op = "openRead" /\ HasDotDotSegment(ret'.arg))
       => /\ ~ret'.ok
          /\ err' = "BAD_FILENAME"
          /\ openReadList' = openReadList
          /\ \A n \in calls' : ~HasDotDotSegment(n)]_vars

\* C7: openRead(p) is served by the first DirHandle, head to tail, that
\* resolves p (mountpoint admits p, symbolic link policy passes, archiver
\* opens it), and by none when no DirHandle does; a new mount goes to the tail
\* when appended and to the head when not, so that of two mounts that both
\* resolve p the one mounted second serves p exactly when it was prepended.
C7_FirstResolvingServes ==
    [][/\ (ret'.op = "openRead" /\ sanitizePlatformIndependentPath(ret'.arg).ok)
          => /\ ret'.served = FirstResolving(sanitizePlatformIndependentPath(ret'.arg).out)
             /\ ret'.ok = (ret'.served # 0)
             /\ ret'.ok => openReadList' # <<>> /\ openReadList'[1].dh = ret'.served
       /\ (ret'.op = "mount" /\ ret'.ok /\ IndexOfDir(ret'.arg) = 0)
          => /\ dhs'[ret'.served].dirName = ret'.arg
             /\ searchPath' = IF ret'.flag THEN searchPath \o <<ret'.served>>
                              ELSE <<ret'.served>> \o searchPath]_vars

\* The directory is mounted twice, at "/" and at "l"; both mounts resolve
\* l/f and the one at the head, the mount at "l", has served it.
C7_Witness ==
    /\ ret.op = "openRead"
    /\ ret.arg = <<"l", "/", "f">>
    /\ allowSymLinks
    /\ Len(searchPath) = 2
    /\ Resolves(searchPath[1], RetName.out)
    /\ Resolves(searchPath[2], RetName.out)
    /\ dhs[searchPath[1]].mountPoint = <<"l", "/">>
    /\ dhs[searchPath[2]].mountPoint = <<>>
    /\ ret.served = searchPath[1]

\* C8 as stated: unmount(d) of a mounted d fails with FILES_STILL_OPEN and
\* leaves the search path alone whenever a handle of the read list or of the
\* write list has dirHandle->dirName = d.
C8_RefusedByAnyHandle ==
    [][(/\ ret'.op = "unmount"
        /\ IndexOfDir(ret'.arg) # 0
        /\ \E h \in OpenHandles : dhs[h.dh].dirName = ret'.arg)
       => /\ ~ret'.ok
          /\ err' = "FILES_STILL_OPEN"
          /\ searchPath' = searchPath]_vars

\* C8: unmount(d) of a mounted d fails with FILES_STILL_OPEN and leaves the
\* search path and its DirHandles alone whenever a handle of the read list
\* references the search path's DirHandle for d; handles of the write list do
\* not count; with no such read handle the call succeeds, removes exactly that
\* element and destroys exactly that DirHandle.
C8_RefusedByReadHandles ==
    [][(ret'.op = "unmount" /\ IndexOfDir(ret'.arg) # 0)
       => LET k == IndexOfDir(ret'.arg)
              i == searchPath[k]
          IN  IF \E h \in Range(openReadList) : h.dh = i
              THEN /\ ~ret'.ok
                   /\ err' = "FILES_STILL_OPEN"
                   /\ searchPath' = searchPath
                   /\ dhs' = dhs
              ELSE /\ ret'.ok
                   /\ searchPath' = SubSeq(searchPath, 1, k - 1)
                                       \o SubSeq(searchPath, k + 1, Len(searchPath))
                   /\ ~dhs'[i].live
                   /\ \A j \in (1..MaxDH) \ {i} : dhs'[j] = dhs[j]]_vars

\* An unmount refused for a read handle, with two directories mounted and a
\* write handle open as well.
C8_Witness ==
    /\ ret.op = "unmount"
    /\ ~ret.ok
    /\ err = "FILES_STILL_OPEN"
    /\ Len(searchPath) = 2
    /\ IndexOfDir(ret.arg) # 0
    /\ \E h \in Range(openReadList) : h.dh = searchPath[IndexOfDir(ret.arg)]
    /\ openWriteList # <<>>

\* C9: every handle of openReadList references a live DirHandle and every
\* handle of openWriteList references the write DirHandle, which is live; and
\* no step destroys a DirHandle that a handle of either list references.
C9_NoDirHandleDestroyedInUse ==
    [][/\ \A h \in Range(openReadList') : dhs'[h.dh].live
       /\ \A h \in Range(openWriteList') :
             writeDir' # 0 /\ h.dh = writeDir' /\ dhs'[writeDir'].live
       /\ \A i \in 1..MaxDH :
             (/\ dhs[i].live
              /\ \/ ~dhs'[i].live
                 \/ ret'.op = "setWriteDir" /\ ret'.ok /\ i = writeDir)
             => \A h \in Range(openReadList') \cup Range(openWriteList') : h.dh # i]_vars

\* deinit has returned success with a read handle still in its list (its Io
\* would not flush): the search path is gone and the DirHandle is not.
C9_Witness ==
    /\ ret.op = "deinit"
    /\ ret.ok
    /\ ~initialized
    /\ searchPath = <<>>
    /\ openReadList # <<>>
    /\ dhs[openReadList[1].dh].live

\* C10 as stated: with symbolic links forbidden, openRead(p) with a symbolic
\* link among the segments of p in some mount returns null with
\* SYMLINK_FORBIDDEN, whatever the other mounts; with symbolic links permitted
\* openRead(p) succeeds when a mount admits p and its archiver opens it.
C10_ForbiddenWhateverMounts ==
    (ret.op = "openRead" /\ RetName.ok) =>
        /\ (~allowSymLinks /\ \E k \in 1..Len(searchPath) : SymlinkOnPath(searchPath[k], RetName.out))
              => ~ret.ok /\ err = "SYMLINK_FORBIDDEN"
        /\ (allowSymLinks /\ \E k \in 1..Len(searchPath) :
                                /\ Admits(dhs[searchPath[k]].mountPoint, RetName.out)
                                /\ DIR_openRead(dhs[searchPath[k]].dirName,
                                                ArcName(dhs[searchPath[k]].mountPoint, RetName.out)))
              => ret.ok

\* C10: with symbolic links forbidden, openRead(p) is never served by a mount
\* in which a segment of p is a symbolic link, and it returns null with
\* SYMLINK_FORBIDDEN when such a mount is the last of the search path and no
\* mount before it resolves p; with symbolic links permitted openRead(p)
\* succeeds when a mount admits p and its archiver opens it.
C10_SymlinkPolicy ==
    (ret.op = "openRead" /\ RetName.ok /\ searchPath # <<>>) =>
        LET p == RetName.out
            n == Len(searchPath)
        IN  /\ ~allowSymLinks =>
                  /\ ret.served # 0 => ~SymlinkOnPath(ret.served, p)
                  /\ (/\ SymlinkOnPath(searchPath[n], p)
                      /\ \A k \in 1..(n - 1) : ~Resolves(searchPath[k], p))
                     => ~ret.ok /\ err = "SYMLINK_FORBIDDEN"
            /\ (allowSymLinks /\ \E k \in 1..n :
                                    /\ Admits(dhs[searchPath[k]].mountPoint, p)
                                    /\ DIR_openRead(dhs[searchPath[k]].dirName,
                                                    ArcName(dhs[searchPath[k]].mountPoint, p)))
                  => ret.ok

\* l/f refused for the link l in the mount at "/", the last of two mounts.
C10_Witness ==
    /\ ret.op = "openRead"
    /\ ret.arg = <<"l", "/", "f">>
    /\ ~allowSymLinks
    /\ Len(searchPath) = 2
    /\ SymlinkOnPath(searchPath[2], RetName.out)
    /\ ~ret.ok
    /\ err = "SYMLINK_FORBIDDEN"

\* ------------------------------------------------------- enumerate
\* The name of the entry e of the directory arc, relative to the archive.
EntryPath(arc, e) == IF arc = <<>> THEN e ELSE arc \o <<"/">> \o e

\* The sanitized name p is a proper ancestor of the mountpoint mp.
AncestorOfMountPoint(mp, p) ==
    /\ mp # <<>>
    /\ \/ p = <<>>
       \/ Len(p) + 1 < Len(mp) /\ SubSeq(mp, 1, Len(p) + 1) = p \o <<"/">>

\* The DirHandle at cell i holds the directory p: p is under its mountpoint,
\* the symbolic link policy lets p through, and p is a directory there.
HoldsDirectory(i, p) ==
    /\ ~AncestorOfMountPoint(dhs[i].mountPoint, p)
    /\ Admits(dhs[i].mountPoint, p)
    /\ allowSymLinks \/ ~SymlinkOnPath(i, p)
    /\ DIR_stat(dhs[i].dirName, ArcName(dhs[i].mountPoint, p)) = "dir"

\* The entries of the directory p of the DirHandle at cell i that are no
\* symbolic links, in the directory's order.
EntriesNotSymlinks(i, p) ==
    LET arc == ArcName(dhs[i].mountPoint, p)
    IN  SelectSeq(DirEntries(arc),
                  LAMBDA e : DIR_stat(dhs[i].dirName, EntryPath(arc, e)) # "symlink")

\* The entries of the DirHandle at cell i that the last call handed to the
\* application's callback, in the order of the calls.
PassedFrom(i) ==
    LET own == SelectSeq(ret.passed, LAMBDA x : x.dh = i /\ ~x.synth)
    IN  [k \in 1..Len(own) |-> own[k].name]

\* C11: with symbolic links forbidden (the DIR archiver declares
\* supportsSymlinks) enumerate(path) hands the callback no entry that is a
\* symbolic link in the DirHandle it comes from, and, the callback never
\* stopping the enumeration, every entry that is none, from every DirHandle
\* that holds the directory; with symbolic links permitted it hands over
\* every entry.
C11_SymlinksFiltered ==
    (ret.op = "enumerate" /\ RetName.ok) =>
        LET p == RetName.out
        IN  /\ ~allowSymLinks =>
                  \A k \in 1..Len(ret.passed) :
                     ~ret.passed[k].synth =>
                        LET i == ret.passed[k].dh
                            arc == ArcName(dhs[i].mountPoint, p)
                        IN  DIR_stat(dhs[i].dirName, EntryPath(arc, ret.passed[k].name))
                               \notin {"symlink", "missing"}
            /\ ret.flag =>
                  \A k \in 1..Len(searchPath) :
                     LET i == searchPath[k]
                     IN  PassedFrom(i) =
                            IF ~HoldsDirectory(i, p) THEN << >>
                            ELSE IF allowSymLinks
                            THEN DirEntries(ArcName(dhs[i].mountPoint, p))
                            ELSE EntriesNotSymlinks(i, p)

\* The directory d, which holds a file and a symbolic link, enumerated to the
\* end under the mountpoint "l" with symbolic links forbidden: the callback is
\* given the file only.
C11_Witness ==
    /\ ret.op = "enumerate"
    /\ ret.arg = <<"/", "d", "/">>
    /\ ret.flag
    /\ ~allowSymLinks
    /\ Len(searchPath) = 2
    /\ dhs[searchPath[1]].mountPoint = <<"l", "/">>
    /\ dhs[searchPath[2]].mountPoint = << >>
    /\ PassedFrom(searchPath[2]) = << <<"f">> >>
    /\ Len(DirEntries(<<"d">>)) = 2

\* ------------------------------------------------------------ drives
\* C12: a call on one drive leaves every per-drive item of every other drive
\* as it was: the initialized flag, the allocator selection, the search path,
\* the write dir, the open lists, the symbolic link policy, the error record
\* and the mutexes.
C12_DrivesIsolated ==
    [][\A d \in Drives : (dret'.dv # d) => drive'[d] = drive[d]]_vars

\* ----------------------------------------------------- per-thread errors
\* A thread's ErrStates in the error list.
RecordsOf(t) == { k \in 1..Len(errorStates) : errHeap[errorStates[k]].tid = t }

NoTwoRecords == \A t \in Threads : Cardinality(RecordsOf(t)) <= 1

\* C13 as stated: what PHYSFS_getLastErrorCode returns to a thread is the
\* last code other than OK that the thread itself passed to
\* PHYSFS_setErrorCode since its previous PHYSFS_getLastErrorCode, OK if it
\* passed none, and the error list never holds two ErrStates of one thread.
C13_OwnLastError ==
    /\ \A t \in Threads : tret[t].op = "get" => tret[t].val = tret[t].ownAll
    /\ NoTwoRecords

\* The code of a thread's ErrState, OK when it has none.
StoredCode(t) ==
    IF \E a \in 1..Len(errHeap) : errHeap[a].tid = t
    THEN errHeap[CHOOSE a \in 1..Len(errHeap) : errHeap[a].tid = t].code
    ELSE "OK"

\* The step is one of a PHYSFS_setErrorCode(OK) of the thread.
InSetOfOK(t) ==
    \/ tpc[t] = "idle" /\ tret'[t] # tret[t] /\ tret'[t].op = "set" /\ tret'[t].val = "OK"
    \/ tpc[t] # "idle" /\ ttop[t] = "set" /\ targ[t] = "OK" /\ tpc'[t] # tpc[t]

\* C14: PHYSFS_getLastErrorCode returns the code of the caller's ErrState and
\* leaves OK there, so that a second call with nothing in between returns
\* OK; PHYSFS_setErrorCode(OK) changes neither the error list nor any
\* ErrState; and an ErrState is allocated for a thread only while it has none.
C14_GetResetsOkIsNoop ==
    [][\A t \in Threads :
        /\ (tpc[t] = "read" /\ tpc'[t] = "idle") =>
                /\ tret'[t].op = "get"
                /\ tret'[t].val = StoredCode(t)
                /\ StoredCode(t)' = "OK"
                /\ tret[t].op = "get" => tret'[t].val = "OK"
        /\ InSetOfOK(t) => errHeap' = errHeap /\ errorStates' = errorStates
        /\ (tpc[t] = "malloc" /\ tpc'[t] = "link") =>
                /\ \A a \in 1..Len(errHeap) : errHeap[a].tid # t
                /\ errHeap'[Len(errHeap')].tid = t
      ]_vars

\* A thread has called PHYSFS_setErrorCode(OK) and its ErrState still holds
\* the code it stored before; the other thread has an ErrState too.
C14_Witness ==
    /\ tret["A"].op = "set"
    /\ tret["A"].val = "OK"
    /\ StoredCode("A") = "X"
    /\ Len(errorStates) = 2

\* ------------------------------------------------------------ the locks
\* C15 as stated: no thread holds stateLock[dv] and errorLock[dv] at the
\* same time.
C15_LocksNeverTogether ==
    \A t \in Threads : ~(stateLock = t /\ errorLock = t)

\* C15, amended: a thread holds errorLock[dv] only for the walk of the error
\* list or the link of a new ErrState; it holds both locks only there, when
\* it records or reads its error code inside a state-locked section, and it
\* never asks for stateLock[dv] while it holds errorLock[dv].
C15_ErrorLockInsideOnly ==
    \A t \in Threads :
        /\ errorLock = t => tpc[t] \in {"search", "linked"}
        /\ (stateLock = t /\ errorLock = t) => (tcall[t] \in LockedCalls /\ tcont[t] = "release")

\* A thread inside PHYSFS_openRead holds stateLock[dv] and, to link the
\* ErrState of its NOT_FOUND, errorLock[dv].
C15_Witness ==
    \E t \in Threads :
        /\ stateLock = t
        /\ errorLock = t
        /\ tcall[t] = "openRead"
        /\ tpc[t] = "linked"

\* a waits for a mutex that b holds.
WaitsFor(a, b) ==
    \/ tpc[a] = "grab" /\ stateLock = b
    \/ tpc[a] \in {"find", "link"} /\ errorLock = b

\* C16: no thread asks for stateLock[dv] while it holds errorLock[dv], no
\* two threads wait for each other, and under fair scheduling every call
\* that was started returns, its thread holding neither lock.
C16_DeadlockFree ==
    /\ [](\A t \in Threads : errorLock = t => tpc[t] # "grab")
    /\ [](\A a \in Threads : \A b \in Threads \ {a} : ~(WaitsFor(a, b) /\ WaitsFor(b, a)))
    /\ \A t \in Threads :
          (tpc[t] # "idle") ~> (tpc[t] = "idle" /\ stateLock # t /\ errorLock # t)

\* One thread waits for stateLock[dv] while the other holds it together with
\* errorLock[dv].
C16_Witness ==
    /\ tpc["A"] = "grab"
    /\ stateLock = "B"
    /\ errorLock = "B"

\* C17: every read or write of the search path, the write dir, the open
\* lists or the symbolic link policy by a public call is made by a thread
\* that holds stateLock[dv], and every change of the error list by a thread
\* that holds errorLock[dv].
C17_GuardedByLocks ==
    [][/\ acc'.item # "none" => acc'.held
       /\ errorStates' # errorStates =>
              \E t \in Threads : errorLock = t /\ tpc'[t] # tpc[t]
      ]_vars

\* ------------------------------------------------- flush, close, deinit
\* The bytes of a write handle's buffer that wait to be written.
Pending(h) == IF h.forReading THEN <<>> ELSE Slice(h.buffer, h.bufpos, h.buffill)

\* Of the bytes pending in h, those after the first took are pending in h2.
StillPending(h, took, h2) ==
    LET p == Pending(h)
        q == Pending(h2)
        rest == Slice(p, Max(took, 0), Len(p))
    IN  /\ Len(q) >= Len(rest)
        /\ Slice(q, Len(q) - Len(rest), Len(q)) = rest

\* C18: a close of a write handle that fails leaves the handle in its list,
\* its Io not destroyed, and every byte that was pending and that the Io did
\* not take still pending, so that a later close or flush can deliver it; a close
\* that succeeds takes the handle from its list and destroys its Io.
C18_FailedCloseKeepsAll ==
    [][(fret'.op = "close" /\ fh.mode = "w") =>
          IF fret'.ok
          THEN fh'.mode = "wclosed"
          ELSE /\ fh'.mode = "w"
               /\ StillPending(fh, iopos' - iopos, fh')
      ]_vars

\* C19: a flush of a write handle with n pending bytes succeeds and sets
\* buffill and bufpos to zero only if the Io took all n bytes; if the Io
\* took fewer, the flush fails and the bytes not written remain pending.
C19_FlushAllOrFail ==
    [][(fret'.op = "flush" /\ FlushPending(fh)) =>
          LET n == fh.buffill - fh.bufpos
              took == iopos' - iopos
          IN  /\ fret'.ok => (took = n /\ fh'.buffill = 0 /\ fh'.bufpos = 0)
              /\ took < n =>
                    /\ ~fret'.ok
                    /\ StillPending(fh, took, fh')
      ]_vars

\* C20: when deinit returns success, every byte that writeBytes accepted on
\* the open write handle, the bytes pending in its buffer among them, has
\* been written to the Io before the Io is destroyed.
C20_DeinitWritesAll ==
    (fret.op = "deinit" /\ fret.ok) => disk = expect

\* ------------------------------------------------------------- lifecycle
\* C21: after a successful deinit the drive is uninitialized, both open
\* lists are empty, there is no write dir, the search path is empty with
\* every DirHandle closed, and the thread has no error recorded; and when the
\* Io of a handle fails its flush, deinit fails and the drive stays
\* initialized.
C21_DeinitLeavesNoHandle ==
    ret.op = "deinit" =>
        /\ ret.ok =>
              /\ ~initialized
              /\ openReadList = <<>>
              /\ openWriteList = <<>>
              /\ writeDir = 0
              /\ searchPath = <<>>
              /\ \A i \in 1..MaxDH : ~dhs[i].live
              /\ err = "OK"
        /\ ret.flag => (~ret.ok /\ initialized)

\* The items of a drive that a refused init or deinit leaves alone.
SameDriveState(a, b) ==
    /\ a.initialized = b.initialized
    /\ a.searchPath = b.searchPath
    /\ a.openReadList = b.openReadList
    /\ a.openWriteList = b.openWriteList
    /\ a.writeDir = b.writeDir
    /\ a.locks = b.locks

\* C22: init on an initialized drive fails with IS_INITIALIZED and deinit on
\* a drive that is not initialized fails with NOT_INITIALIZED, and both leave
\* the drive's initialized flag, mounts, open handles, write dir and mutexes
\* as they were; an init that succeeds sets initialized and a deinit that
\* succeeds clears it, and the init that follows a successful deinit of the
\* drive succeeds when a base dir can be derived.
C22_InitDeinitGuarded ==
    [][dret'.dv \in Drives =>
        LET dv == dret'.dv
        IN  /\ (dret'.op = "init" /\ drive[dv].initialized) =>
                  /\ ~dret'.ok /\ ~dret'.ended
                  /\ drive'[dv].errorStates = "IS_INITIALIZED"
                  /\ SameDriveState(drive[dv], drive'[dv])
            /\ (dret'.op = "deinit" /\ ~drive[dv].initialized) =>
                  /\ ~dret'.ok /\ ~dret'.ended
                  /\ drive'[dv].errorStates = "NOT_INITIALIZED"
                  /\ SameDriveState(drive[dv], drive'[dv])
            /\ (dret'.op = "init" /\ dret'.ok) => drive'[dv].initialized
            /\ (dret'.op = "deinit" /\ dret'.ok) => ~drive'[dv].initialized
            /\ (dret.op = "deinit" /\ dret.ok /\ dret.dv = dv /\ dret'.op = "init"
                  /\ dret'.base) => dret'.ok
      ]_vars

\* C23: on an initialized drive the allocator in use is the one the last
\* successful setAllocator on the drive gave, whether or not the init of the
\* drive was the first init call of the process and whatever was initialized
\* on other drives in between; it is the default allocator only when no
\* allocator was set for the drive.
C23_ChosenAllocatorUsed ==
    \A dv \in Drives :
        drive[dv].initialized =>
            drive[dv].allocator = IF chosen[dv] THEN "external" ELSE "default"

\* The last call was an init that found no base dir: the platform gave none
\* and argv0 was NULL.
InitWithoutArgv0(r) == r.op = "init" /\ ~r.base /\ r.argv0 = "null"

\* C24: when the platform yields no base dir and argv0 is NULL, init on a
\* drive that is not initialized returns failure and leaves the drive
\* uninitialized with no mutex and no base dir, and the thread's next
\* getLastErrorCode on the drive returns ARGV0_IS_NULL.
C24_Argv0NullReported ==
    [][dret'.dv \in Drives =>
        LET dv == dret'.dv
        IN  /\ (InitWithoutArgv0(dret') /\ ~drive[dv].initialized) =>
                  /\ ~dret'.ok
                  /\ ~drive'[dv].initialized
                  /\ ~drive'[dv].locks
                  /\ ~drive'[dv].baseDir
            /\ (InitWithoutArgv0(dret) /\ dret.dv = dv /\ ~drive[dv].initialized
                  /\ dret'.op = "getLastErrorCode") =>
                  dret'.code = "ARGV0_IS_NULL"
      ]_vars

\* ============================================================ SpecProbe
\* The sources given to mount: the directories A (also spelled A/) and B,
\* the regular file F, which is no archive, and N, which is not there.
Sources == {"A", "A/", "B", "F", "N"}

\* __PHYSFS_platformStat of a source, links followed.
SourceStat(d) ==
    IF d \in {"A", "A/", "B"} THEN "dir" ELSE IF d = "F" THEN "file" ELSE "missing"

\* The Io handed to the mount: none (PHYSFS_mount), or that of PHYSFS_mountIo
\* with its version field 0 or not.
Ios == {"none", "v0", "v1"}

\* The allocation of a mount that returns NULL, by the place that makes it;
\* "none": every allocation succeeds.
AllocSites == {"none", "openArchive", "DirHandle", "nativeIo", "dirName", "mountPoint"}

\* What the steps of openDirectory give: whether there is a DirHandle, whether
\* an archiver claimed the source, the thread's error code, whether an
\* allocation that was reached failed, and how far the probing got ("stat":
\* the source could not be statted; "dir": the DIR archiver answered; "io": no
\* native Io could be made; "all": no archiver was left to try).  arcerr is
\* the error an archiver's openArchive failed with, "OK" when none failed.
Probed(ok, claimed, e, oom, probe) ==
    [ok |-> ok, claimed |-> claimed, err |-> e, oom |-> oom, probe |-> probe,
     arcerr |-> "OK"]

\* DIR_openArchive(NULL, name, forWriting, &claimed) with the thread's error
\* code e.
DIR_openArchive(name, site, e) ==
    IF SourceStat(name) = "missing"
    THEN [Probed(FALSE, FALSE, "NOT_FOUND", FALSE, "dir") EXCEPT !.arcerr = "NOT_FOUND"]
    ELSE IF SourceStat(name) # "dir"
    THEN [Probed(FALSE, FALSE, "UNSUPPORTED", FALSE, "dir") EXCEPT !.arcerr = "UNSUPPORTED"]
    ELSE IF site = "openArchive"
    THEN [Probed(FALSE, TRUE, "OUT_OF_MEMORY", TRUE, "dir") EXCEPT !.arcerr = "OUT_OF_MEMORY"]
    ELSE Probed(TRUE, TRUE, e, FALSE, "dir")

\* tryOpenDir(NULL, &__PHYSFS_Archiver_DIR, d, forWriting, &claimed)
tryOpenDir(d, site, e) ==
    LET o == DIR_openArchive(d, site, e)
    IN  IF o.ok /\ site = "DirHandle"
        THEN Probed(FALSE, o.claimed, o.err, TRUE, "dir")
        ELSE o

\* The error openDirectory fails with when no archiver gave a DirHandle:
\* "claimed ? errcode : PHYSFS_ERR_UNSUPPORTED".
ErrcodeAlways(claimed, errcode) == errcode
ClaimedOrUnsupported(claimed, errcode) == IF claimed THEN errcode ELSE "UNSUPPORTED"

\* openDirectory from __PHYSFS_createNativeIo on: no archiver is left to try.
NoArchiverLeft(created_io, site, claimed, e) ==
    IF created_io /\ site = "nativeIo"
    THEN Probed(FALSE, claimed, "OUT_OF_MEMORY", TRUE, "io")
    ELSE Probed(FALSE, claimed, ClaimedOrUnsupported(claimed, e), FALSE, "all")

\* openDirectory(io, d, forWriting) with the thread's error code e.
openDirectory(io, d, site, e) ==
    IF io # "none" THEN NoArchiverLeft(FALSE, site, FALSE, e)
    ELSE IF SourceStat(d) = "missing" THEN Probed(FALSE, FALSE, "NOT_FOUND", FALSE, "stat")
    ELSE IF SourceStat(d) = "dir"
    THEN LET t == tryOpenDir(d, site, e)
         IN  IF t.ok \/ t.claimed THEN t
             ELSE NoArchiverLeft(TRUE, site, t.claimed, t.err)
    ELSE NoArchiverLeft(TRUE, site, FALSE, e)

\* createDirHandle(io, newDir, mountPoint, 0): the DirHandle, or the failure.
createDirHandle_io(io, newDir, mountPoint, site) ==
    LET san == sanitizePlatformIndependentPath(mountPoint)
        o == openDirectory(io, newDir, site, "OK")
        dh == [live |-> TRUE, dirName |-> newDir,
               mountPoint |-> IF san.out = <<>> THEN <<>> ELSE san.out \o <<"/">>]
    IN  IF ~san.ok THEN Probed(FALSE, FALSE, "BAD_FILENAME", FALSE, "none")
        ELSE IF ~o.ok THEN o
        ELSE IF site = "dirName" THEN [o EXCEPT !.ok = FALSE, !.err = "OUT_OF_MEMORY", !.oom = TRUE]
        ELSE IF san.out # <<>> /\ site = "mountPoint"
        THEN [o EXCEPT !.ok = FALSE, !.err = "OUT_OF_MEMORY", !.oom = TRUE]
        ELSE o

\* The DirHandle createDirHandle fills in.
NewDirHandle(newDir, mountPoint) == createDirHandle(newDir, mountPoint).dh

\* doMount's loop over the search path: "already in search path?"
NeverInSearchPath(fname) == FALSE
AlreadyInSearchPath(fname) ==
    \E k \in 1..Len(searchPath) : dhs[searchPath[k]].dirName = fname

\* The record of a mount call; ret.flag is appendToPath and ret.passed the
\* mountPoint given.
MountCall(io, ok, fname, mountPoint, appendToPath) ==
    [Call(IF io = "none" THEN "mount" ELSE "mountIo", ok, fname) EXCEPT
        !.flag = appendToPath, !.passed = mountPoint, !.io = io]

\* PHYSFS_mount(fname, mountPoint, appendToPath) when io is "none", else
\* PHYSFS_mountIo(io, fname, mountPoint, appendToPath), both through doMount.
doMount(io, fname, mountPoint, appendToPath, site) ==
    /\ initialized
    /\ FreeCells # {}
    /\ LET c == createDirHandle_io(io, fname, mountPoint, site)
           r == MountCall(io, FALSE, fname, mountPoint, appendToPath)
       IN  IF io = "v1"
           THEN /\ ret' = r
                /\ err' = "UNSUPPORTED"
                /\ UNCHANGED <<searchPath, dhs>>
           ELSE IF AlreadyInSearchPath(fname)
           THEN /\ ret' = [r EXCEPT !.ok = TRUE]
                /\ err' = "OK"
                /\ UNCHANGED <<searchPath, dhs>>
           ELSE IF ~c.ok
           THEN /\ ret' = [r EXCEPT !.probe = c.probe, !.oom = c.oom,
                                     !.claimed = c.claimed, !.arcerr = c.arcerr]
                /\ err' = c.err
                /\ UNCHANGED <<searchPath, dhs>>
           ELSE /\ dhs' = [dhs EXCEPT ![NewCell] = NewDirHandle(fname, mountPoint)]
                /\ searchPath' = InsertInSearchPath(searchPath, NewCell, appendToPath)
                /\ ret' = [r EXCEPT !.ok = TRUE, !.served = NewCell, !.probe = c.probe,
                                     !.claimed = c.claimed]
                /\ err' = "OK"
    /\ calls' = {}
    /\ UNCHANGED <<initialized, writeDir, openReadList, openWriteList, allowSymLinks>>
    /\ UNCHANGED <<made, sanVars, fileVars, otherVars>>

\* The dirNames of the search path from its k-th entry on, head first: what
\* PHYSFS_getSearchPathCallback hands to the callback.
RECURSIVE SearchPathNames(_)
SearchPathNames(k) ==
    IF k > Len(searchPath) THEN <<>>
    ELSE <<dhs[searchPath[k]].dirName>> \o SearchPathNames(k + 1)

\* PHYSFS_getSearchPath(), through doEnumStringList: failAt is the allocation
\* that returns NULL (0: none; 1: the list; k + 1: the callback's for the
\* k-th entry).
PHYSFS_getSearchPath(failAt) ==
    /\ initialized
    /\ ret' = IF failAt = 0
              THEN [Call("getSearchPath", TRUE, "") EXCEPT !.passed = SearchPathNames(1)]
              ELSE [Call("getSearchPath", FALSE, "") EXCEPT !.oom = TRUE]
    /\ err' = IF failAt = 0 THEN "OK" ELSE "OUT_OF_MEMORY"
    /\ calls' = {}
    /\ UNCHANGED <<initialized, searchPath, dhs, writeDir, openReadList, openWriteList,
                   allowSymLinks>>
    /\ UNCHANGED <<made, sanVars, fileVars, otherVars>>

\* The allocations a mount of the source can reach.
SitesOf(d) ==
    IF SourceStat(d) = "dir" THEN AllocSites \ {"nativeIo"}
    ELSE IF SourceStat(d) = "file" THEN {"none", "nativeIo"}
    ELSE {"none"}

\* The search path under mounts of every kind of source, with allocations
\* that fail.
NextProbe ==
    \/ PHYSFS_init
    \/ \E d \in Sources : \E mp \in MountPoints : \E a \in BOOLEAN : \E site \in SitesOf(d) :
          doMount("none", d, mp, a, site)
    \/ \E io \in Ios \ {"none"} : \E d \in Sources : \E mp \in MountPoints :
          doMount(io, d, mp, TRUE, "none")
    \/ \E d \in Sources : PHYSFS_unmount(d)
    \/ \E failAt \in 0..(Len(searchPath) + 1) : PHYSFS_getSearchPath(failAt)

SpecProbe == InitMount /\ [][NextProbe]_vars

\* C25: whenever an allocation fails inside an operation, the operation
\* returns its failure value and the thread's last error code is
\* OUT_OF_MEMORY.
C25_OomSurfaces ==
    ret.oom => (~ret.ok /\ err = "OUT_OF_MEMORY")

\* The search path has an entry whose dirName is fname.
HasEntryNamed(fname) ==
    \E k \in 1..Len(searchPath) : dhs[searchPath[k]].dirName = fname

\* No two entries of the search path have the same dirName.
DirNamesDistinct ==
    \A j, k \in 1..Len(searchPath) :
        dhs[searchPath[j]].dirName = dhs[searchPath[k]].dirName => j = k

\* C26: mount(fname, mountPoint, append) when an entry with dirName fname is
\* already in the search path returns success and leaves the search path as
\* it is, the entry's mountpoint included; so no two entries of the search
\* path ever have the same dirName.
C26_DuplicateMountIdempotent ==
    /\ []DirNamesDistinct
    /\ [][(ret'.op = "mount" /\ HasEntryNamed(ret'.arg)) =>
            /\ ret'.ok
            /\ searchPath' = searchPath
            /\ dhs' = dhs
         ]_vars

\* A source already mounted at the root was mounted again under another
\* mountpoint, with another source in the search path too.
C26_Witness ==
    /\ ret.op = "mount" /\ ret.ok /\ ret.served = 0
    /\ ret.passed = <<"l">>
    /\ Len(searchPath) >= 2
    /\ \E k \in 1..Len(searchPath) :
          /\ dhs[searchPath[k]].dirName = ret.arg
          /\ dhs[searchPath[k]].mountPoint = <<>>

\* The list without the element x.
Except(list, x) == SelectSeq(list, LAMBDA y : y # x)

\* The dirNames of the entries of a search path sp over the DirHandles h,
\* head first.
NamesOf(sp, h) == [k \in 1..Len(sp) |-> h[sp[k]].dirName]

\* C27: a successful mount of a source not yet in the search path inserts
\* exactly one new DirHandle, at the tail when appendToPath is non-zero and at
\* the head otherwise; a successful unmount removes exactly the matching
\* entry; both keep the order of the other entries; and getSearchPath
\* reports the dirNames head first.
C27_InsertAndRemoveKeepOrder ==
    [][/\ (ret'.op = "mount" /\ ret'.ok /\ ~HasEntryNamed(ret'.arg)) =>
            LET new == ret'.served
            IN  /\ new \notin Range(searchPath)
                /\ Len(searchPath') = Len(searchPath) + 1
                /\ searchPath'[IF ret'.flag THEN Len(searchPath') ELSE 1] = new
                /\ dhs'[new].dirName = ret'.arg
                /\ Except(searchPath', new) = searchPath
                /\ \A i \in Range(searchPath) : dhs'[i] = dhs[i]
       /\ (ret'.op = "unmount" /\ ret'.ok) =>
            LET old == ret'.served
            IN  /\ old \in Range(searchPath)
                /\ dhs[old].dirName = ret'.arg
                /\ searchPath' = Except(searchPath, old)
                /\ \A i \in Range(searchPath') : dhs'[i] = dhs[i]
       /\ (ret'.op = "getSearchPath" /\ ret'.ok) =>
            ret'.passed = NamesOf(searchPath, dhs)
      ]_vars

\* getSearchPath reported three entries, of which the head was mounted last
\* and the tail neither first nor last.
C27_Witness ==
    /\ ret.op = "getSearchPath" /\ ret.ok
    /\ Len(ret.passed) = 3
    /\ searchPath[1] > searchPath[3]
    /\ searchPath[3] > searchPath[2]

\* A mount or mountIo that failed.
MountFailed(r) == r.op \in {"mount", "mountIo"} /\ ~r.ok

\* What every failed mount does, whatever the source: the search path and
\* the DirHandles stay as they are, the error of an archiver that claimed the
\* source and failed is the mount's error, and an Io whose version is not 0
\* is rejected with UNSUPPORTED before anything is probed.
FailedMountKeepsPath ==
    MountFailed(ret') =>
        /\ searchPath' = searchPath
        /\ dhs' = dhs
        /\ (ret'.claimed /\ ret'.arcerr # "OK") => err' = ret'.arcerr
        /\ ret'.io = "v1" => (err' = "UNSUPPORTED" /\ ret'.probe = "none")

\* C28 as stated: a mount that no archiver accepts fails and leaves the
\* search path unchanged; if no archiver claimed the source the error is
\* UNSUPPORTED, and if one claimed it and failed the error is that
\* archiver's; mountIo with an Io of non-zero version is rejected with
\* UNSUPPORTED before any probing.
C28_UnclaimedIsUnsupported ==
    [][/\ FailedMountKeepsPath
       /\ (MountFailed(ret') /\ ~ret'.claimed) => err' = "UNSUPPORTED"
      ]_vars

\* C28, amended: the error is UNSUPPORTED when no archiver claimed a source
\* that the mount could stat and open; a source that cannot be statted
\* fails with the platform's error before any archiver is asked.
C28_UnclaimedIsUnsupportedWhenProbed ==
    [][/\ FailedMountKeepsPath
       /\ (MountFailed(ret') /\ ~ret'.claimed /\ ret'.probe = "all") => err' = "UNSUPPORTED"
       /\ (MountFailed(ret') /\ ret'.probe = "stat") =>
              (~ret'.claimed /\ err' = "NOT_FOUND")
      ]_vars

\* A regular file that is no archive was given to mount while another
\* source was mounted: nothing claimed it.
C28_Witness ==
    /\ MountFailed(ret)
    /\ ret.arg = "F"
    /\ ret.probe = "all" /\ ~ret.claimed
    /\ err = "UNSUPPORTED"
    /\ searchPath # <<>>

\* ============================================================ SpecWrite
\* The paths given to openWrite, openAppend, mkdir, delete and stat: the
\* names that can change, the directory itself, and a path that
\* sanitizePlatformIndependentPath refuses.
WritePaths == Changeable \cup { <<>>, <<".", ".">> }

\* DIR_stat over the names as m has them.
StatIn(m, name) == IF name \in Changeable THEN m[name] ELSE Tree(name)

\* The while (1) loop of doMkdir from start on: exists is the flag of the
\* loop, e the thread's error code, m the names as made so far and mk the
\* names handed to the archiver's mkdir so far.
RECURSIVE MkdirLoop(_, _, _, _, _, _)
MkdirLoop(dname, start, exists, e, m, mk) ==
    LET end == StrChrSlash(dname, start)
        name == IF end = 0 THEN dname ELSE SubSeq(dname, 1, end - 1)
        rc == StatIn(m, name) # "missing"
        e1 == IF exists /\ ~rc THEN "NOT_FOUND" ELSE e
        exists1 == exists /\ rc
        isdir == rc /\ StatIn(m, name) = "dir"
        \* __PHYSFS_platformMkDir: the parent is there by now
        made1 == IF ~exists1 /\ name \in Changeable THEN [m EXCEPT ![name] = "dir"] ELSE m
        mk1 == IF ~exists1 THEN Append(mk, name) ELSE mk
        retval == IF ~exists1 THEN name \in Changeable ELSE isdir
    IN  IF ~retval THEN [ok |-> FALSE, err |-> e1, made |-> made1, mk |-> mk1]
        ELSE IF end = 0 THEN [ok |-> TRUE, err |-> e1, made |-> made1, mk |-> mk1]
        ELSE MkdirLoop(dname, end + 1, exists1, e1, made1, mk1)

\* PHYSFS_mkdir(_dname), through doMkdir; ret.passed is the names handed to
\* the archiver's mkdir, in order.
PHYSFS_mkdir(_dname) ==
    /\ initialized
    /\ LET san == sanitizePlatformIndependentPath(_dname)
           v == verifyPath(WriteDirHandle, san.out, TRUE, "OK")
           r == MkdirLoop(v.arc, 1, TRUE, v.err, made, <<>>)
       IN  IF ~san.ok
           THEN /\ ret' = Call("mkdir", FALSE, _dname)
                /\ err' = "BAD_FILENAME"
                /\ calls' = {}
                /\ UNCHANGED made
           ELSE IF NoWriteDir(writeDir)
           THEN /\ ret' = Call("mkdir", FALSE, _dname)
                /\ err' = "NO_WRITE_DIR"
                /\ calls' = {}
                /\ UNCHANGED made
           ELSE IF ~v.ok
           THEN /\ ret' = Call("mkdir", FALSE, _dname)
                /\ err' = v.err
                /\ calls' = v.stats
                /\ UNCHANGED made
           ELSE /\ ret' = [Call("mkdir", r.ok, _dname) EXCEPT !.passed = r.mk]
                /\ err' = r.err
                /\ calls' = v.stats \cup {v.arc}
                /\ made' = r.made
    /\ UNCHANGED <<initialized, searchPath, dhs, writeDir, openReadList, openWriteList,
                   allowSymLinks>>
    /\ UNCHANGED <<sanVars, fileVars, otherVars>>

\* The directory has an entry.
HasEntries(name) ==
    \/ name \notin Changeable
    \/ \E n \in Changeable : made[n] # "missing" /\ ParentName(n) = name

\* DIR_remove, through __PHYSFS_platformDelete: the error it fails with, OK
\* when it removes the name.
DIR_remove(dirName, name) ==
    IF DIR_stat(dirName, name) = "missing" THEN "NOT_FOUND"
    ELSE IF DIR_stat(dirName, name) = "dir" /\ HasEntries(name) THEN "DIR_NOT_EMPTY"
    ELSE IF name \notin Changeable THEN "PERMISSION"
    ELSE "OK"

\* PHYSFS_delete(_fname), through doDelete.
PHYSFS_delete(_fname) ==
    /\ initialized
    /\ LET san == sanitizePlatformIndependentPath(_fname)
           v == verifyPath(WriteDirHandle, san.out, FALSE, "OK")
           r == DIR_remove(WriteDirHandle.dirName, v.arc)
       IN  IF ~san.ok
           THEN /\ ret' = Call("delete", FALSE, _fname)
                /\ err' = "BAD_FILENAME"
                /\ calls' = {}
                /\ UNCHANGED made
           ELSE IF NoWriteDir(writeDir)
           THEN /\ ret' = Call("delete", FALSE, _fname)
                /\ err' = "NO_WRITE_DIR"
                /\ calls' = {}
                /\ UNCHANGED made
           ELSE IF ~v.ok
           THEN /\ ret' = Call("delete", FALSE, _fname)
                /\ err' = v.err
                /\ calls' = v.stats
                /\ UNCHANGED made
           ELSE /\ ret' = Call("delete", r = "OK", _fname)
                /\ err' = IF r = "OK" THEN v.err ELSE r
                /\ calls' = v.stats \cup {v.arc}
                /\ made' = IF r = "OK" THEN [made EXCEPT ![v.arc] = "missing"] ELSE made
    /\ UNCHANGED <<initialized, searchPath, dhs, writeDir, openReadList, openWriteList,
                   allowSymLinks>>
    /\ UNCHANGED <<sanVars, fileVars, otherVars>>

\* What __PHYSFS_platformStat puts in stat->readonly: the directories of the
\* model can be written.
NativeReadonly(name) == FALSE

\* What PHYSFS_stat gives.
Stat(ok, filetype, readonly, e, served) ==
    [ok |-> ok, filetype |-> filetype, readonly |-> readonly, err |-> e, served |-> served]

\* The for loop of PHYSFS_stat from the k-th entry of the search path on.
RECURSIVE StatLoop(_, _, _)
StatLoop(k, fname, e) ==
    IF k > Len(searchPath) THEN Stat(FALSE, "other", TRUE, e, 0)
    ELSE LET i == searchPath[k]
             v == verifyPath(dhs[i], fname, FALSE, e)
             st == DIR_stat(dhs[i].dirName, v.arc)
         IN  IF partOfMountPoint(dhs[i], fname) THEN Stat(TRUE, "dir", TRUE, e, i)
             ELSE IF ~v.ok THEN StatLoop(k + 1, fname, v.err)
             ELSE IF st = "missing" THEN StatLoop(k + 1, fname, "NOT_FOUND")
             ELSE Stat(TRUE, st, NativeReadonly(v.arc), v.err, i)

\* PHYSFS_stat(_fname, stat); ret.flag is stat->readonly.
PHYSFS_stat(_fname) ==
    /\ initialized
    /\ LET san == sanitizePlatformIndependentPath(_fname)
           r == IF ~san.ok THEN Stat(FALSE, "other", TRUE, "BAD_FILENAME", 0)
                ELSE IF san.out = <<>> THEN Stat(TRUE, "dir", NoWriteDir(writeDir), "OK", 0)
                ELSE StatLoop(1, san.out, "OK")
       IN  /\ ret' = [Call("stat", r.ok, _fname) EXCEPT
                         !.filetype = r.filetype, !.flag = r.readonly, !.served = r.served]
           /\ err' = r.err
    /\ calls' = {}
    /\ UNCHANGED <<initialized, searchPath, dhs, writeDir, openReadList, openWriteList,
                   allowSymLinks>>
    /\ UNCHANGED <<made, sanVars, fileVars, otherVars>>

\* The write dir, and the same directory in the search path.
NextWrite ==
    \/ PHYSFS_init
    \/ \E d \in WriteDirNames : PHYSFS_setWriteDir(d)
    \/ PHYSFS_mount("A", <<"/">>, TRUE)
    \/ \E allow \in BOOLEAN : PHYSFS_permitSymbolicLinks(allow)
    \/ \E p \in WritePaths : \E appending \in BOOLEAN : doOpenWrite(p, appending)
    \/ \E p \in WritePaths : PHYSFS_mkdir(p)
    \/ \E p \in WritePaths : PHYSFS_delete(p)
    \/ \E p \in WritePaths : PHYSFS_stat(p)

SpecWrite == InitMount /\ [][NextWrite]_vars

\* The calls that need the write dir.
WriteSideOps == {"doOpenWrite", "mkdir", "delete"}

\* C29: while no write dir is set, openWrite, openAppend, mkdir and delete
\* on a path that sanitize accepts fail with NO_WRITE_DIR, hand nothing to
\* the backend, and leave openWriteList, the search path and the directory
\* as they are, whatever is mounted.
C29_NoWriteDirRefused ==
    [][(/\ ret'.op \in WriteSideOps
        /\ writeDir = 0
        /\ sanitizePlatformIndependentPath(ret'.arg).ok) =>
            /\ ~ret'.ok
            /\ err' = "NO_WRITE_DIR"
            /\ calls' = {}
            /\ ret'.passed = <<>>
            /\ openWriteList' = openWriteList
            /\ searchPath' = searchPath
            /\ dhs' = dhs
            /\ made' = made
      ]_vars

\* mkdir of x/y was refused for want of a write dir while the directory was
\* mounted in the search path.
C29_Witness ==
    /\ ret.op = "mkdir" /\ ret.arg = <<"x", "/", "y">>
    /\ err = "NO_WRITE_DIR"
    /\ writeDir = 0
    /\ searchPath # <<>>

\* The path p of the scenario, its parent path, and the ancestors of p from
\* the write dir down.
ThePath == <<"x", "/", "y", "/", "c">>
TheParent == <<"x", "/", "y">>
TheAncestors == << <<"x">>, <<"x", "/", "y">> >>

\* The parent directories of p are not all there / are all there.
ParentsAbsent == \E k \in 1..Len(TheAncestors) : made[TheAncestors[k]] = "missing"
ParentsThere == \A k \in 1..Len(TheAncestors) : made[TheAncestors[k]] = "dir"

\* The step is an openWrite or openAppend of p with a write dir set.
OpensThePath == ret'.op = "doOpenWrite" /\ ret'.arg = ThePath /\ writeDir # 0

\* The directory of the write dir is the head of the search path, mounted at
\* the root.
WriteDirMountedAtRoot ==
    /\ writeDir # 0
    /\ searchPath # <<>>
    /\ dhs[searchPath[1]].dirName = dhs[writeDir].dirName
    /\ dhs[searchPath[1]].mountPoint = <<>>

\* What both readings of C30 say of mkdir and of the openWrite that follows
\* it: a mkdir of the parent path that succeeds has handed the ancestors that
\* were missing to the backend, outermost first, and leaves all of them
\* directories; with all of them there, openWrite(p) succeeds and adds a
\* handle.
MkdirThenOpenWrite ==
    /\ (ret'.op = "mkdir" /\ ret'.arg = TheParent /\ ret'.ok) =>
          /\ ret'.passed = SelectSeq(TheAncestors, LAMBDA n : made[n] = "missing")
          /\ \A k \in 1..Len(TheAncestors) : made'[TheAncestors[k]] = "dir"
    /\ (OpensThePath /\ ParentsThere /\ made[ThePath] # "dir") =>
          /\ ret'.ok
          /\ made'[ThePath] = "file"
          /\ Len(openWriteList') = Len(openWriteList) + 1
          /\ openWriteList'[1] = [fid |-> ret'.fid, dh |-> writeDir]

\* stat of the parent path reports a directory that is not read-only.
StatSeesParent ==
    ret'.ok /\ ret'.filetype = "dir" /\ ~ret'.flag

\* C30 as stated: with a write dir set and the parent directories of p
\* absent, openWrite(p) fails with NO_WRITE_DIR and adds no handle; after
\* mkdir of the parent path, openWrite(p) succeeds and stat of the parent
\* path reports a directory with readonly = false.
C30_AbsentParentsNoWriteDir ==
    [][/\ (OpensThePath /\ ParentsAbsent) =>
             /\ ~ret'.ok
             /\ err' = "NO_WRITE_DIR"
             /\ openWriteList' = openWriteList
       /\ MkdirThenOpenWrite
       /\ (ret'.op = "stat" /\ ret'.arg = TheParent /\ writeDir # 0 /\ ParentsThere) =>
             StatSeesParent
      ]_vars

\* C30, amended: the openWrite under absent parents fails with NOT_FOUND,
\* and stat reports the parent when the write dir's directory is mounted at
\* the root of the search path.
C30_AbsentParentsNotFound ==
    [][/\ (OpensThePath /\ ParentsAbsent) =>
             /\ ~ret'.ok
             /\ err' = "NOT_FOUND"
             /\ openWriteList' = openWriteList
             /\ made' = made
       /\ MkdirThenOpenWrite
       /\ (ret'.op = "stat" /\ ret'.arg = TheParent /\ WriteDirMountedAtRoot /\ ParentsThere) =>
             StatSeesParent
      ]_vars

\* stat reported the parent path as a writable directory after mkdir made
\* it and openWrite created p under it.
C30_Witness ==
    /\ ret.op = "stat" /\ ret.arg = TheParent /\ ret.ok
    /\ ret.filetype = "dir" /\ ~ret.flag
    /\ WriteDirMountedAtRoot
    /\ made[ThePath] = "file"
    /\ \E k \in 1..Len(openWriteList) : openWriteList[k].dh = writeDir

\* ========================================================= SpecWriteDir
\* The names given to setWriteDir: "" is NULL, A and B are directories, F is
\* a regular file and N is not there.
NewWriteDirs == {"", "A", "B", "F", "N"}

\* freeDirHandle(dh, openList): whether it closes the DirHandle.
FreesNoDirHandle(dh, openList) == FALSE
FreesDirHandle(dh, openList) == dh = 0 \/ ~References(openList, dh)

\* PHYSFS_setWriteDir(newDir) for a newDir of any kind, with the allocation
\* that fails in createDirHandle.
PHYSFS_setWriteDir_io(newDir, site) ==
    /\ initialized
    /\ writeDir # 0 \/ FreeCells # {}
    /\ IF writeDir # 0 /\ ~FreesDirHandle(writeDir, openWriteList)
       THEN /\ ret' = Call("setWriteDir", FALSE, newDir)
            /\ err' = "FILES_STILL_OPEN"
            /\ UNCHANGED <<dhs, writeDir>>
       ELSE LET freed == IF writeDir # 0 THEN [dhs EXCEPT ![writeDir] = NoDirHandle] ELSE dhs
                cell == CHOOSE i \in 1..MaxDH :
                           /\ ~freed[i].live
                           /\ \A j \in 1..MaxDH : ~freed[j].live => i <= j
                c == createDirHandle_io("none", newDir, <<>>, site)
            IN  IF newDir = ""
                THEN /\ dhs' = freed
                     /\ writeDir' = 0
                     /\ ret' = Call("setWriteDir", TRUE, newDir)
                     /\ err' = "OK"
                ELSE IF ~c.ok
                THEN /\ dhs' = freed
                     /\ writeDir' = 0
                     /\ ret' = [Call("setWriteDir", FALSE, newDir) EXCEPT
                                   !.probe = c.probe, !.oom = c.oom,
                                   !.claimed = c.claimed, !.arcerr = c.arcerr]
                     /\ err' = c.err
                ELSE /\ dhs' = [freed EXCEPT ![cell] = NewDirHandle(newDir, <<>>)]
                     /\ writeDir' = cell
                     /\ ret' = [Call("setWriteDir", TRUE, newDir) EXCEPT
                                   !.served = cell, !.probe = c.probe, !.claimed = c.claimed]
                     /\ err' = "OK"
    /\ calls' = {}
    /\ UNCHANGED <<initialized, searchPath, openReadList, openWriteList, allowSymLinks>>
    /\ UNCHANGED <<made, sanVars, fileVars, otherVars>>

\* The write dir next to a search path, with write and read handles open.
NextWriteDir ==
    \/ PHYSFS_init
    \/ \E d \in NewWriteDirs : \E site \in SitesOf(d) \ {"mountPoint"} :
          PHYSFS_setWriteDir_io(d, site)
    \/ \E d \in {"A", "B"} : \E a \in BOOLEAN : doMount("none", d, <<"/">>, a, "none")
    \/ \E d \in {"A", "B"} : PHYSFS_unmount(d)
    \/ PHYSFS_openRead(<<"f">>)
    \/ \E appending \in BOOLEAN : doOpenWrite(<<"f">>, appending)
    \/ \E fid \in 1..MaxFH : \E ok \in BOOLEAN : PHYSFS_close(fid, ok)

SpecWriteDir == InitMount /\ [][NextWriteDir]_vars

\* The part of the drive setWriteDir must not touch: the search path with
\* its DirHandles, and the open lists.
SearchPathKept ==
    /\ searchPath' = searchPath
    /\ \A k \in 1..Len(searchPath) : dhs'[searchPath[k]] = dhs[searchPath[k]]
    /\ openReadList' = openReadList
    /\ openWriteList' = openWriteList

\* A write handle opened through the current write dir is open.
WriteHandleOpen ==
    writeDir # 0 /\ \E k \in 1..Len(openWriteList) : openWriteList[k].dh = writeDir

\* C31: setWriteDir, with a path or with null, fails with FILES_STILL_OPEN
\* and leaves the write dir and openWriteList unchanged while a write handle
\* opened through the current write dir is open; with none open it closes
\* the previous write DirHandle and installs the new one, or none, and it
\* never touches the search path.
C31_SetWriteDirGuarded ==
    [][ret'.op = "setWriteDir" =>
          /\ SearchPathKept
          /\ WriteHandleOpen =>
                /\ ~ret'.ok
                /\ err' = "FILES_STILL_OPEN"
                /\ writeDir' = writeDir
                /\ dhs' = dhs
          /\ ~WriteHandleOpen =>
                /\ (writeDir # 0 /\ writeDir' # writeDir) => ~dhs'[writeDir].live
                /\ ret'.ok => IF ret'.arg = "" THEN writeDir' = 0
                              ELSE /\ writeDir' # 0
                                   /\ writeDir' \notin Range(searchPath)
                                   /\ dhs'[writeDir'].live
                                   /\ dhs'[writeDir'].dirName = ret'.arg
                /\ ~ret'.ok => writeDir' = 0
      ]_vars

\* setWriteDir was refused for an open write handle while a directory was
\* mounted and a read handle open.
C31_Witness ==
    /\ ret.op = "setWriteDir" /\ ~ret.ok /\ err = "FILES_STILL_OPEN"
    /\ WriteHandleOpen
    /\ searchPath # <<>>
    /\ openReadList # <<>>

\* The application's callback returned STOP or ERROR in the call.
CallbackEnded(how) ==
    /\ ret.stopAt # 0
    /\ Len(ret.passed) >= ret.stopAt
    /\ ret.how = how

\* C32: once the callback returns STOP it is not invoked again in the call,
\* for the current mount or a later one, and enumerate returns success; once
\* it returns ERROR it is not invoked again and enumerate fails with
\* APP_CALLBACK; an enumeration that fails for an error of the archiver
\* fails with the archiver's code, not APP_CALLBACK.
C32_CallbackEndsEnumerate ==
    (ret.op = "enumerate" /\ sanitizePlatformIndependentPath(ret.arg).ok) =>
        /\ ret.stopAt # 0 => Len(ret.passed) <= ret.stopAt
        /\ CallbackEnded("STOP") => ret.ok
        /\ CallbackEnded("ERROR") => ~ret.ok /\ err = "APP_CALLBACK"
        /\ (~ret.ok /\ ~CallbackEnded("ERROR")) => err = "NOT_FOUND"

\* The callback returned STOP at an entry of the first of two mounts that
\* hold the directory.
C32_Witness ==
    /\ ret.op = "enumerate" /\ ret.arg = <<>>
    /\ CallbackEnded("STOP")
    /\ Len(searchPath) = 2
    /\ \A k \in 1..2 : dhs[searchPath[k]].mountPoint = <<>>
    /\ ret.ok

\* The callback returned ERROR.
C32_WitnessError == ret.op = "enumerate" /\ CallbackEnded("ERROR") /\ ~ret.ok

\* An entry was gone when the symlink filter looked at it.
C32_WitnessArchiver ==
    /\ ret.op = "enumerate" /\ ~ret.ok /\ err = "NOT_FOUND" /\ ~CallbackEnded("ERROR")
    /\ ret.passed # <<>>

\* ======================================================= SpecEnumMounts
\* Three directories mounted at the root, at d and at d/b, and enumerate of
\* the root, of d, of d/b, of the file f and of "..", which the sanitizer
\* refuses.
DeepMountPoints == { <<"/">>, <<"d">>, <<"d", "/", "b">> }
DeepEnumNames == { <<>>, <<"d">>, <<"d", "/", "b">>, <<"f">>, <<".", ".">> }

NextEnumMounts ==
    \/ PHYSFS_init
    \/ \E d \in {"A", "A/", "B"} : \E mp \in DeepMountPoints : \E a \in BOOLEAN :
          PHYSFS_mount(d, mp, a)
    \/ \E allow \in BOOLEAN : PHYSFS_permitSymbolicLinks(allow)
    \/ \E dn \in DeepEnumNames : \E c \in { <<0, "STOP">>, <<2, "STOP">> } :
          PHYSFS_enumerate_alone(dn, c[1], c[2])

SpecEnumMounts == InitMount /\ [][NextEnumMounts]_vars

\* The segment of the mountpoint mp that follows its proper ancestor p.
NextSegment(mp, p) ==
    LET rest == IF p = <<>> THEN mp ELSE SubSeq(mp, Len(p) + 2, Len(mp))
        end == CHOOSE k \in 1..Len(rest) :
                  rest[k] = "/" /\ \A j \in 1..(k - 1) : rest[j] # "/"
    IN  SubSeq(rest, 1, end - 1)

\* What the DirHandle at cell i yields for the directory p: the next segment
\* of its mountpoint when the mountpoint lies strictly below p, the children
\* of p (without the symbolic links, when these are forbidden) when it holds
\* p as a directory, and nothing otherwise.
Yield(i, p) ==
    IF AncestorOfMountPoint(dhs[i].mountPoint, p)
    THEN << NextSegment(dhs[i].mountPoint, p) >>
    ELSE IF ~HoldsDirectory(i, p) THEN << >>
    ELSE IF allowSymLinks THEN DirEntries(ArcName(dhs[i].mountPoint, p))
    ELSE EntriesNotSymlinks(i, p)

\* What the search path from its k-th element on yields for p.
RECURSIVE YieldFrom(_, _)
YieldFrom(k, p) ==
    IF k > Len(searchPath) THEN << >>
    ELSE Yield(searchPath[k], p) \o YieldFrom(k + 1, p)

\* The names the last call handed to the callback, in the order of the calls.
PassedNames == [k \in 1..Len(ret.passed) |-> ret.passed[k].name]

\* enumerate ran to the end of the search path.
EnumeratedToTheEnd == ret.op = "enumerate" /\ RetName.ok /\ ret.flag /\ ret.ok

\* C33 as stated: enumerate hands the callback no name more than once in
\* one call.
C33_NoNameTwice ==
    EnumeratedToTheEnd =>
        \A j, k \in 1..Len(PassedNames) : PassedNames[j] = PassedNames[k] => j = k

\* C33: enumerate(path) hands the callback, for each mount whose mountpoint
\* lies strictly below path, the next segment of the mountpoint, and the
\* children of path of every mount that holds path as a directory, mount by
\* mount in the order of the search path: a name is handed over once for
\* every mount that yields it.
C33_EveryMountYields ==
    EnumeratedToTheEnd => PassedNames = YieldFrom(1, RetName.out)

\* d enumerated with a mount at d/b, which yields the segment b, and a mount
\* at the root, which yields the children of d.
C33_Witness ==
    /\ EnumeratedToTheEnd
    /\ ret.arg = <<"d">>
    /\ allowSymLinks
    /\ Len(searchPath) = 2
    /\ dhs[searchPath[1]].mountPoint = <<"d", "/", "b", "/">>
    /\ dhs[searchPath[2]].mountPoint = << >>
    /\ PassedNames = << <<"b">>, <<"f">>, <<"s">> >>

\* ======================================================== SpecEnumFiles
\* The value of a char of a name as an unsigned byte; 0 ends the string.
ByteOf(c) ==
    CASE c = "a" -> 97 [] c = "d" -> 100 [] c = "f" -> 102 [] c = "l" -> 108
      [] c = "s" -> 115 [] c = "." -> 46 [] c = "/" -> 47 [] c = ":" -> 58
      [] c = "\\" -> 92 [] OTHER -> 0

\* strcmp(a, b) from the k-th char on: negative, zero or positive.
RECURSIVE strcmp(_, _, _)
strcmp(a, b, k) ==
    LET x == ByteOf(CharAt(a, k))
        y == ByteOf(CharAt(b, k))
    IN  IF x # y THEN x - y
        ELSE IF x = 0 THEN 0
        ELSE strcmp(a, b, k + 1)

\* The while loop of locateInStringList; list[middle] of the code is
\* list[middle + 1] here.
RECURSIVE LocateLoop(_, _, _, _)
LocateLoop(str, list, len, lo) ==
    IF len = 0 THEN [found |-> FALSE, pos |-> lo]
    ELSE LET half_len == len \div 2
             middle == lo + half_len
             cmp == strcmp(list[middle + 1], str, 1)
         IN  IF cmp = 0 THEN [found |-> TRUE, pos |-> len]
             ELSE IF cmp > 0 THEN LocateLoop(str, list, half_len, lo)
             ELSE LocateLoop(str, list, len - (half_len + 1), middle + 1)

\* locateInStringList(str, list, &pos) with *pos = size on entry.
locateInStringList(str, list, size) == LocateLoop(str, list, size, 0)

\* The memmove and the store of enumFilesCallback: newstr at list[pos].
InsertAtEnd(list, pos, newstr) == Append(list, newstr)
InsertAt(list, pos, newstr) ==
    SubSeq(list, 1, pos) \o <<newstr>> \o SubSeq(list, pos + 1, Len(list))

\* The EnumStringListCallbackData of PHYSFS_enumerateFiles; size is the
\* length of list.
NoEcd == [list |-> <<>>, errcode |-> "OK", retval |-> "OK"]

\* enumFilesCallback(data, origdir, str); allocOk tells that Realloc and
\* Malloc both give memory.
enumFilesCallback(pecd, str, allocOk) ==
    LET l == locateInStringList(str, pecd.list, Len(pecd.list))
    IN  IF l.found THEN [pecd EXCEPT !.retval = "OK"]
        ELSE IF ~allocOk THEN [pecd EXCEPT !.errcode = "OUT_OF_MEMORY", !.retval = "ERROR"]
        ELSE [pecd EXCEPT !.list = InsertAt(@, l.pos, str), !.retval = "OK"]

\* The callback over the names enumerate hands it, from the k-th on; the
\* allocation of the stopAt-th call fails.
RECURSIVE CollectFiles(_, _, _, _)
CollectFiles(pecd, passed, k, stopAt) ==
    IF k > Len(passed) THEN pecd
    ELSE LET e == enumFilesCallback(pecd, passed[k].name, k # stopAt)
         IN  IF e.retval = "ERROR" THEN e
             ELSE CollectFiles(e, passed, k + 1, stopAt)

\* The call of the callback that makes the failAt-th allocation, 0 when the
\* enumeration ends before.
FailingCall(passed, failAt) ==
    LET IsNew(n) == \A j \in 1..(n - 1) : passed[j].name # passed[n].name
        NewUpTo(n) == Cardinality({j \in 1..n : IsNew(j)})
    IN  IF failAt = 0 \/ NewUpTo(Len(passed)) < failAt THEN 0
        ELSE CHOOSE n \in 1..Len(passed) : IsNew(n) /\ NewUpTo(n) = failAt

\* PHYSFS_enumerateFiles(path): ret.list is the list returned, NUL its
\* terminating null pointer and <<>> the NULL of a failure.  The failAt-th
\* allocation of the callback fails (0: none does); the first Malloc of the
\* list does not.
PHYSFS_enumerateFiles(path, failAt) ==
    /\ initialized
    /\ LET san == sanitizePlatformIndependentPath(path)
           all == EnumerateLoop(1, san.out, NoEnum, 0, "STOP")
           stopAt == FailingCall(all.passed, failAt)
           r == EnumerateLoop(1, san.out, NoEnum, stopAt, "ERROR")
           ecd == CollectFiles(NoEcd, r.passed, 1, stopAt)
       IN  IF ~san.ok
           THEN /\ ret' = [Call("enumerateFiles", TRUE, path) EXCEPT
                              !.list = <<NUL>>, !.stopAt = failAt]
                /\ err' = "BAD_FILENAME"
           ELSE IF r.retval = "ERROR"
           THEN /\ ret' = [Call("enumerateFiles", FALSE, path) EXCEPT
                              !.passed = r.passed, !.oom = (stopAt # 0), !.stopAt = failAt]
                /\ err' = IF r.err = "APP_CALLBACK" THEN ecd.errcode ELSE r.err
           ELSE /\ ret' = [Call("enumerateFiles", TRUE, path) EXCEPT
                              !.passed = r.passed, !.list = Append(ecd.list, NUL),
                              !.stopAt = failAt]
                /\ err' = r.err
    /\ calls' = {}
    /\ UNCHANGED <<initialized, searchPath, dhs, writeDir, openReadList, openWriteList,
                   allowSymLinks>>
    /\ UNCHANGED <<made, sanVars, fileVars, otherVars>>

\* The allocations of the callback that fail; 0 is none.
FailAts == 0..1

\* Three directories appended to the search path at the root, at s and at
\* da, and enumerateFiles of the root, of d and of a name that is refused.
NextEnumFiles ==
    \/ PHYSFS_init
    \/ \E d \in {"A", "A/", "B"} : \E mp \in { <<"/">>, <<"s">>, <<"d", "a">> } :
          PHYSFS_mount(d, mp, TRUE)
    \/ \E allow \in BOOLEAN : PHYSFS_permitSymbolicLinks(allow)
    \/ \E dn \in { <<>>, <<"d">>, <<".", ".">> } : \E failAt \in FailAts :
          PHYSFS_enumerateFiles(dn, failAt)

SpecEnumFiles == InitMount /\ [][NextEnumFiles]_vars

\* a comes before b in byte-wise lexicographic order.
ComesBefore(a, b) ==
    \E i \in 1..(Len(b)) :
       /\ \A j \in 1..(i - 1) : j <= Len(a) /\ a[j] = b[j]
       /\ i > Len(a) \/ ByteOf(a[i]) < ByteOf(b[i])

\* The strings of the list returned, without the null pointer that ends it.
ListStrings == SubSeq(ret.list, 1, Len(ret.list) - 1)

\* C34: the list enumerateFiles(path) returns ends with a null pointer, is
\* strictly increasing in byte-wise lexicographic order, and holds exactly
\* the names enumerate delivers for the path across all mounts.
C34_ListSortedAndComplete ==
    (ret.op = "enumerateFiles" /\ ret.ok /\ RetName.ok) =>
        /\ ret.list # <<>>
        /\ ret.list[Len(ret.list)] = NUL
        /\ \A k \in 1..Len(ListStrings) : ListStrings[k] # NUL
        /\ \A j, k \in 1..Len(ListStrings) :
              j < k => ComesBefore(ListStrings[j], ListStrings[k])
        /\ {ListStrings[k] : k \in 1..Len(ListStrings)}
              = {YieldFrom(1, RetName.out)[k] : k \in 1..Len(YieldFrom(1, RetName.out))}

\* The root listed with mounts at s, at da and at the root, in this order:
\* enumerate delivers s, da, a, d, f, l and s again.
C34_Witness ==
    /\ ret.op = "enumerateFiles" /\ ret.ok /\ ret.arg = <<>>
    /\ allowSymLinks
    /\ PassedNames = << <<"s">>, <<"d", "a">>, <<"a">>, <<"d">>, <<"f">>, <<"l">>, <<"s">> >>
    /\ ret.list = << <<"a">>, <<"d">>, <<"d", "a">>, <<"f">>, <<"l">>, <<"s">>, NUL >>

\* ========================================================== SpecConfine
\* Names around the mountpoint da: shorter, equal, under it, a sibling that
\* starts with it, and names that have nothing of it.
ConfineNames ==
    { <<"d">>, <<"d", "a">>, <<"d", "a", "/", "f">>, <<"d", "a", "f">>, <<"f">>,
      <<"s", "/", "f">> }

\* Two directories mounted at da, at s or at the root, and openRead.
NextConfine ==
    \/ PHYSFS_init
    \/ \E d \in {"A", "B"} : \E mp \in { <<"d", "a">>, <<"s">>, <<"/">> } :
          \E a \in BOOLEAN : PHYSFS_mount(d, mp, a)
    \/ \E d \in {"A", "B"} : PHYSFS_unmount(d)
    \/ \E allow \in BOOLEAN : PHYSFS_permitSymbolicLinks(allow)
    \/ \E f \in ConfineNames : PHYSFS_openRead(f)
    \/ \E fid \in 1..MaxFH : PHYSFS_close(fid, TRUE)

SpecConfine == InitMount /\ [][NextConfine]_vars

\* The elements of the search path whose mountpoint admits p.
Admitting(p) == {k \in 1..Len(searchPath) : Admits(dhs[searchPath[k]].mountPoint, p)}

\* The names an archiver may be given for p: p without the mountpoint of an
\* element that admits it, and the names of the segments on the way there.
NamesWithin(p) ==
    UNION { SegmentPrefixes(ArcName(dhs[searchPath[k]].mountPoint, p)) \cup
            {ArcName(dhs[searchPath[k]].mountPoint, p)} : k \in Admitting(p) }

\* C35: a DirHandle with mountpoint m takes a sanitized name f that is not
\* empty only when f is m or starts with m and a '/', and its archiver is
\* given f without that prefix; any other f, a sibling or a shorter name, it
\* refuses with NOT_FOUND, and its archiver is given nothing.
C35_MountPointConfines ==
    (ret.op = "openRead" /\ RetName.ok /\ RetName.out # <<>> /\ searchPath # <<>>) =>
        /\ calls \subseteq NamesWithin(RetName.out)
        /\ ret.served # 0 =>
              /\ Admits(dhs[ret.served].mountPoint, RetName.out)
              /\ ArcName(dhs[ret.served].mountPoint, RetName.out) \in calls
        /\ Admitting(RetName.out) = {} =>
              /\ ~ret.ok
              /\ err = "NOT_FOUND"
              /\ calls = {}

\* The sibling daf refused by a mount at da, the only mount.
C35_Witness ==
    /\ ret.op = "openRead"
    /\ ret.arg = <<"d", "a", "f">>
    /\ Len(searchPath) = 1
    /\ dhs[searchPath[1]].mountPoint = <<"d", "a", "/">>
    /\ ~ret.ok /\ err = "NOT_FOUND" /\ calls = {}

\* C36: setBuffer leaves tell() as it was, whether it succeeds or fails, and
\* when it succeeds the buffer is empty (buffill = bufpos = 0) and its size
\* is the size asked for.
C36_SetBufferKeepsTell ==
    [][(IsOpen /\ fret'.op = "setBuffer") =>
          /\ PHYSFS_tell(fh', iopos') = PHYSFS_tell(fh, iopos)
          /\ fret'.ok => /\ fh'.buffill = 0
                         /\ fh'.bufpos = 0
                         /\ fh'.bufsize = fret'.want
      ]_vars

\* setBuffer on a read handle leaves tell() as it was.
SetBufferKeepsTellOfReads ==
    [][(IsOpen /\ fh.forReading /\ fret'.op = "setBuffer") =>
          PHYSFS_tell(fh', iopos') = PHYSFS_tell(fh, iopos)]_vars

\* ========================================================= SpecInitRace
\* Two threads in PHYSFS_init at once, each on a drive of its own, from the
\* start of the process.  PHYSFS_init takes no lock: a step is what a thread
\* does between two points where the other can run.  The loop of the one-time
\* initialization is taken one drive at a time; allocator.Init, the mutexes,
\* the base dir and the user dir do not fail.
DriveOf(t) == IF t = "A" THEN 1 ELSE 2

\* What a thread leaves unchanged in PHYSFS_init.
InitKeeps ==
    /\ UNCHANGED <<dret, chosen>>
    /\ UNCHANGED <<errorStates, errHeap, errorLock, ttop, targ, pend, pendAll, tcont>>
    /\ UNCHANGED <<sanVars, fileVars, mountVars, lockVars>>

\* "if (multi_initialized == 0)"; terr[t] is the d of the loop.
init_Check(t) ==
    /\ tpc[t] = "idle"
    /\ tret[t].op = "none"
    /\ IF multi_initialized
       THEN tpc' = [tpc EXCEPT ![t] = "guard"] /\ UNCHANGED terr
       ELSE tpc' = [tpc EXCEPT ![t] = "zero"] /\ terr' = [terr EXCEPT ![t] = 1]
    /\ UNCHANGED <<multi_initialized, drive, tret>>
    /\ InitKeeps

\* The body of the loop for drive d, and d++.
init_Zero(t) ==
    /\ tpc[t] = "zero"
    /\ drive' = [drive EXCEPT ![terr[t]] = [ZeroDrive EXCEPT !.allocator = drive[terr[t]].allocator]]
    /\ IF terr[t] + 1 \in Drives
       THEN terr' = [terr EXCEPT ![t] = @ + 1] /\ UNCHANGED tpc
       ELSE terr' = [terr EXCEPT ![t] = 0] /\ tpc' = [tpc EXCEPT ![t] = "set"]
    /\ UNCHANGED <<multi_initialized, tret>>
    /\ InitKeeps

\* "multi_initialized = 1"
init_Set(t) ==
    /\ tpc[t] = "set"
    /\ multi_initialized' = TRUE
    /\ tpc' = [tpc EXCEPT ![t] = "guard"]
    /\ UNCHANGED <<drive, terr, tret>>
    /\ InitKeeps

\* BAIL_IF(initialized[dv], ...), setDefaultAllocator and initializeMutexes.
init_Mutexes(t) ==
    /\ tpc[t] = "guard"
    /\ IF drive[DriveOf(t)].initialized
       THEN /\ tret' = [tret EXCEPT ![t] = [NoThreadCall EXCEPT !.op = "init",
                                                                !.val = "IS_INITIALIZED"]]
            /\ tpc' = [tpc EXCEPT ![t] = "idle"]
            /\ UNCHANGED drive
       ELSE /\ drive' = [drive EXCEPT
                            ![DriveOf(t)].allocator =
                                IF drive[DriveOf(t)].externalAllocator THEN @ ELSE "default",
                            ![DriveOf(t)].locks = TRUE]
            /\ tpc' = [tpc EXCEPT ![t] = "dirs"]
            /\ UNCHANGED tret
    /\ UNCHANGED <<multi_initialized, terr>>
    /\ InitKeeps

\* baseDir[dv] = calculateBaseDir(...) and userDir[dv]
init_Dirs(t) ==
    /\ tpc[t] = "dirs"
    /\ drive' = [drive EXCEPT ![DriveOf(t)].baseDir = TRUE]
    /\ tpc' = [tpc EXCEPT ![t] = "flag"]
    /\ UNCHANGED <<multi_initialized, terr, tret>>
    /\ InitKeeps

\* "initialized[dv] = 1", the PHYSFS_setErrorCode after it, and "return 1".
\* PHYSFS_getLastErrorCode grabs errorLock[dv]: with the mutex set to NULL by
\* the other thread the platform is handed a null mutex, and the process
\* ends there.
init_Flag(t) ==
    /\ tpc[t] = "flag"
    /\ drive' = [drive EXCEPT ![DriveOf(t)].initialized = TRUE]
    /\ tret' = [tret EXCEPT ![t] = [NoThreadCall EXCEPT
                                       !.op = "init",
                                       !.val = IF drive[DriveOf(t)].locks THEN "OK"
                                               ELSE "ended"]]
    /\ tpc' = [tpc EXCEPT ![t] = "idle"]
    /\ UNCHANGED <<multi_initialized, terr>>
    /\ InitKeeps

\* A step of a thread while the process runs.
Running(step) == step /\ \A u \in Threads : tret[u].val # "ended"

NextInitRace ==
    \E t \in Threads :
        \/ Running(init_Check(t))
        \/ Running(init_Zero(t))
        \/ Running(init_Set(t))
        \/ Running(init_Mutexes(t))
        \/ Running(init_Dirs(t))
        \/ Running(init_Flag(t))

SpecInitRace == InitDrives /\ [][NextInitRace]_vars

\* The thread's PHYSFS_init has returned.
InitReturned(t) == tret[t].op = "init"

\* C37: of two threads that call init at once on two drives never
\* initialized, the first init calls of the process, both succeed, and each
\* drive is initialized from then on with its base dir, its user dir and its
\* mutexes: the one-time initialization never overwrites the state of a
\* drive whose init has started.
C37_ConcurrentInitsIntact ==
    \A t \in Threads :
        InitReturned(t) =>
            /\ tret[t].val = "OK"
            /\ drive[DriveOf(t)].initialized
            /\ drive[DriveOf(t)].baseDir
            /\ drive[DriveOf(t)].locks

\* C38: enumerate of a path the sanitizer refuses returns failure, leaves
\* BAD_FILENAME as the error and never invokes the callback, as every other
\* call that takes a path does.
C38_RefusedPathFails ==
    (ret.op = "enumerate" /\ ~RetName.ok) =>
        /\ ~ret.ok
        /\ err = "BAD_FILENAME"
        /\ ret.passed = <<>>

\* ============================================================= SpecTree
\* a ^ b on the low bits of two naturals.
RECURSIVE BitXor(_, _, _)
BitXor(a, b, bits) ==
    IF bits = 0 THEN 0
    ELSE ((a + b) % 2) + 2 * BitXor(a \div 2, b \div 2, bits - 1)

\* __PHYSFS_hashString from the k-th char on: hash = ((hash << 5) + hash) ^ c.
\* The hash is used modulo hashBuckets only, and the low bits of the sum and
\* of the xor depend on the low bits of their operands alone: the low 8
\* bits of the 32 are kept.
RECURSIVE hashString(_, _, _)
hashString(str, k, hash) ==
    IF k > Len(str) THEN hash
    ELSE hashString(str, k + 1, BitXor((hash * 32 + hash) % 256, ByteOf(str[k]) % 256, 8))

\* hashPathName(dt, name)
hashPathName(name) == hashString(name, 1, 5381) % hashBuckets

\* "move this to the front of the list"
MoveToFrontLoose(D, hashval, retval, prev) ==
    IF prev = 0 THEN D
    ELSE [D EXCEPT !.ent[prev].hashnext = D.ent[retval].hashnext,
                   !.ent[retval].hashnext = 0,
                   !.hash[hashval] = retval]
MoveToFront(D, hashval, retval, prev) ==
    IF prev = 0 THEN D
    ELSE [D EXCEPT !.ent[prev].hashnext = D.ent[retval].hashnext,
                   !.ent[retval].hashnext = D.hash[hashval],
                   !.hash[hashval] = retval]

\* The for loop of __PHYSFS_DirTreeFind from the entry retval on.
RECURSIVE FindWalk(_, _, _, _, _)
FindWalk(D, path, hashval, retval, prev) ==
    IF retval = 0 THEN [dt |-> [D EXCEPT !.err = "NOT_FOUND"], res |-> 0]
    ELSE IF D.ent[retval].name = path
    THEN [dt |-> MoveToFront(D, hashval, retval, prev), res |-> retval]
    ELSE FindWalk(D, path, hashval, D.ent[retval].hashnext, retval)

\* __PHYSFS_DirTreeFind(dt, path): the tree after it and the entry found, 0
\* for NULL.
DirTreeFind(D, path) ==
    IF path = <<>> THEN [dt |-> D, res |-> D.root]
    ELSE FindWalk(D, path, hashPathName(path), D.hash[hashPathName(path)], 0)

\* allocator[dv].Malloc in __PHYSFS_DirTreeAdd
TreeMalloc(D) ==
    IF D.failIn = 1 THEN [dt |-> [D EXCEPT !.failIn = 0], ok |-> FALSE]
    ELSE [dt |-> [D EXCEPT !.failIn = IF @ > 1 THEN @ - 1 ELSE 0], ok |-> TRUE]

\* The new entry linked at the head of its bucket and of its parent's
\* children.
LinkEntryLoose(D, c, name, isdir, parent) ==
    [D EXCEPT !.ent[c] = [name |-> name, isdir |-> isdir,
                          hashnext |-> D.hash[hashPathName(name)],
                          sibling |-> 0, children |-> 0],
              !.hash[hashPathName(name)] = c,
              !.ent[parent].children = c,
              !.n = c]
LinkEntry(D, c, name, isdir, parent) ==
    [D EXCEPT !.ent[c] = [name |-> name, isdir |-> isdir,
                          hashnext |-> D.hash[hashPathName(name)],
                          sibling |-> D.ent[parent].children, children |-> 0],
              !.hash[hashPathName(name)] = c,
              !.ent[parent].children = c,
              !.n = c]

\* __PHYSFS_DirTreeAdd(dt, name, isdir) and addAncestors(dt, name): the tree
\* after the call and the entry returned, 0 for NULL.
\* "if (!ret->isdir)" of addAncestors
NotADirectoryNever(D, e) == FALSE
NotADirectory(D, e) == ~D.ent[e].isdir

RECURSIVE DirTreeAdd(_, _, _)
RECURSIVE addAncestors(_, _)
addAncestors(D, name) ==
    LET sep == LastSlash(name)
        chopped == SubSeq(name, 1, sep - 1)
        f == DirTreeFind(D, chopped)
    IN  IF sep = 0 THEN [dt |-> D, res |-> D.root]
        ELSE IF f.res # 0
        THEN IF NotADirectory(f.dt, f.res)
             THEN [dt |-> [f.dt EXCEPT !.err = "CORRUPT"], res |-> 0]
             ELSE f
        ELSE DirTreeAdd(f.dt, chopped, TRUE)

DirTreeAdd(D, name, isdir) ==
    LET f == DirTreeFind(D, name)
        parent == addAncestors(f.dt, name)
        m == TreeMalloc(parent.dt)
    IN  IF f.res # 0 THEN f
        ELSE IF parent.res = 0 THEN parent
        ELSE IF ~m.ok THEN [dt |-> [m.dt EXCEPT !.err = "OUT_OF_MEMORY"], res |-> 0]
        ELSE [dt |-> LinkEntry(m.dt, m.dt.n + 1, name, isdir, parent.res),
              res |-> m.dt.n + 1]

\* "ptr ? ptr + 1 : name" with ptr = strrchr(name, '/')
Basename(name) == SubSeq(name, LastSlash(name) + 1, Len(name))

\* The while loop of __PHYSFS_DirTreeEnumerate; the callback returns
\* PHYSFS_ENUM_OK.
RECURSIVE ChildrenWalk(_, _, _)
ChildrenWalk(D, entry, passed) ==
    IF entry = 0 THEN passed
    ELSE ChildrenWalk(D, D.ent[entry].sibling, Append(passed, Basename(D.ent[entry].name)))

\* __PHYSFS_DirTreeEnumerate(opaque, dname, cb, ...)
DirTreeEnumerate(D, dname) ==
    LET f == DirTreeFind(D, dname)
    IN  IF f.res = 0 THEN [dt |-> f.dt, res |-> 0, passed |-> <<>>]
        ELSE [dt |-> f.dt, res |-> f.res,
              passed |-> ChildrenWalk(f.dt, f.dt.ent[f.res].children, <<>>)]

\* The names given to the tree: a and a/a/a share a bucket, and so do a/a
\* and d/d.
TreeNames ==
    { <<"a">>, <<"a", "/", "a">>, <<"a", "/", "a", "/", "a">>, <<"d">>, <<"d", "/", "d">> }

\* The entry of the tree with the name, 0 when there is none.
EntryNamed(D, name) ==
    IF \E i \in 2..D.n : D.ent[i].name = name
    THEN CHOOSE i \in 2..D.n : D.ent[i].name = name
    ELSE 0

\* The name and its proper '/'-prefixes.
PathPrefixes(name) ==
    {SubSeq(name, 1, k) : k \in {j \in 1..Len(name) : j = Len(name) \/ name[j + 1] = "/"}}

\* The calls on the tree leave the rest alone.
TreeKeeps == UNCHANGED <<sanIn, sanRes, fileVars, mountVars, otherVars>>

\* __PHYSFS_DirTreeInit(dt, entrylen); its two Mallocs succeed.
TreeInit ==
    /\ dt.root = 0
    /\ dt' = [NoTree EXCEPT !.root = 1, !.n = 1, !.err = dt.err,
                            !.ent[1] = [NoEntry EXCEPT !.name = <<"/">>, !.isdir = TRUE]]
    /\ dtret' = [NoTreeCall EXCEPT !.op = "init", !.res = 1]
    /\ TreeKeeps

\* __PHYSFS_DirTreeAdd(dt, name, isdir); the failIn-th Malloc of the call
\* returns NULL (0: none does).
TreeAdd(name, isdir, failIn) ==
    /\ dt.root # 0
    /\ dt.n + Cardinality({q \in PathPrefixes(name) : EntryNamed(dt, q) = 0}) <= MaxEnt
    /\ LET r == DirTreeAdd([dt EXCEPT !.failIn = failIn], name, isdir)
       IN  /\ dt' = [r.dt EXCEPT !.failIn = 0]
           /\ dtret' = [NoTreeCall EXCEPT !.op = "add", !.name = name, !.isdir = isdir,
                                          !.res = r.res]
    /\ TreeKeeps

\* __PHYSFS_DirTreeFind(dt, path)
TreeFind(path) ==
    /\ dt.root # 0
    /\ LET r == DirTreeFind(dt, path)
       IN  /\ dt' = r.dt
           /\ dtret' = [NoTreeCall EXCEPT !.op = "find", !.name = path, !.res = r.res]
    /\ TreeKeeps

\* __PHYSFS_DirTreeEnumerate(dt, dname, ...)
TreeEnumerate(dname) ==
    /\ dt.root # 0
    /\ LET r == DirTreeEnumerate(dt, dname)
       IN  /\ dt' = r.dt
           /\ dtret' = [NoTreeCall EXCEPT !.op = "enumerate", !.name = dname,
                                          !.res = r.res, !.passed = r.passed]
    /\ TreeKeeps

NextTree ==
    \/ TreeInit
    \/ \E name \in TreeNames : \E isdir \in BOOLEAN : \E failIn \in 0..2 :
          TreeAdd(name, isdir, failIn)
    \/ \E path \in TreeNames \cup { <<>> } : TreeFind(path)
    \/ \E dname \in { <<>>, <<"a">>, <<"d">> } : TreeEnumerate(dname)

InitTree ==
    /\ sanIn = <<>>
    /\ sanRes = NotRun
    /\ TreeIdle
    /\ FileIdle
    /\ MountIdle
    /\ OtherIdle

SpecTree == InitTree /\ [][NextTree]_vars

\* The entries from e on along the sibling links, at most fuel of them.
RECURSIVE SiblingList(_, _, _)
SiblingList(D, e, fuel) ==
    IF e = 0 \/ fuel = 0 THEN <<>>
    ELSE <<e>> \o SiblingList(D, D.ent[e].sibling, fuel - 1)

\* The entries from e on along the hashnext links, at most fuel of them.
RECURSIVE BucketList(_, _, _)
BucketList(D, e, fuel) ==
    IF e = 0 \/ fuel = 0 THEN <<>>
    ELSE <<e>> \o BucketList(D, D.ent[e].hashnext, fuel - 1)

ChildrenOf(D, p) == SiblingList(D, D.ent[p].children, MaxEnt)
ParentsOf(D, e) == {p \in 1..D.n : \E k \in 1..Len(ChildrenOf(D, p)) : ChildrenOf(D, p)[k] = e}
ParentPrefix(name) == SubSeq(name, 1, LastSlash(name) - 1)

\* The name and its proper prefixes are entries, the proper prefixes
\* directories, each the one child-list member of the entry of the prefix
\* before it, the first of the root.
ChainToRoot(D, name) ==
    \A q \in PathPrefixes(name) :
        LET e == EntryNamed(D, q)
        IN  /\ e # 0
            /\ q # name => D.ent[e].isdir
            /\ ParentsOf(D, e) =
                 {IF LastSlash(q) = 0 THEN D.root ELSE EntryNamed(D, ParentPrefix(q))}

\* A proper prefix of the name is an entry that is no directory.
FileAncestor(D, name) ==
    \E q \in PathPrefixes(name) \ {name} :
        EntryNamed(D, q) # 0 /\ ~D.ent[EntryNamed(D, q)].isdir

AddStep ==
    dtret'.op = "add" =>
        LET name == dtret'.name
            old == EntryNamed(dt, name)
            r == dtret'.res
        IN  /\ r # 0 =>
                 /\ DirTreeFind(dt', name).res = r
                 /\ dt'.ent[r].name = name
                 /\ old = 0 => dt'.ent[r].isdir = dtret'.isdir
                 /\ ChainToRoot(dt', name)
            /\ old # 0 =>
                 /\ r = old
                 /\ dt'.n = dt.n
                 /\ Cardinality({i \in 2..dt'.n : dt'.ent[i].name = name}) = 1
                 /\ dt'.ent[r].isdir = dt.ent[old].isdir
            /\ FileAncestor(dt, name) =>
                 /\ r = 0
                 /\ dt'.err = "CORRUPT"
                 /\ EntryNamed(dt', name) = 0

\* C39: after a successful add(name, isdir), find(name) returns that entry
\* and every proper '/'-prefix of the name is a directory entry, the parent
\* chain of the entry up to the root; add of a name that exists returns the
\* existing entry, makes no second one and leaves its isdir; add of a name
\* with an ancestor that is no directory fails with CORRUPT and adds no entry.
C39_AddLinksOrRefuses == [][AddStep]_vars

\* A three-segment name was added to a tree holding neither of its
\* ancestors, and an add under a file was refused.
C39_Witness ==
    /\ dtret.op = "add"
    /\ dtret.name = <<"a", "/", "a", "/", "a">>
    /\ dtret.res = 4
    /\ dt.n = 4
    /\ EntryNamed(dt, <<"d">>) = 0
C39_WitnessCorrupt ==
    /\ dtret.op = "add"
    /\ dtret.res = 0
    /\ FileAncestor(dt, dtret.name)
    /\ dt.err = "CORRUPT"
C39_WitnessExisting ==
    /\ dtret.op = "add"
    /\ dtret.res # 0
    /\ dtret.res < dt.n
    /\ dtret.isdir # dt.ent[dtret.res].isdir

\* The entries of bucket b, in order.
Bucket(D, b) == BucketList(D, D.hash[b], MaxEnt + 1)

\* How often the entry e occurs in the sequence s.
Occurrences(s, e) == Cardinality({k \in 1..Len(s) : s[k] = e})

\* The entries reached from those of S through children and sibling links
\* in at most fuel steps down.
RECURSIVE Descendants(_, _, _)
Descendants(D, S, fuel) ==
    IF fuel = 0 THEN S
    ELSE Descendants(D,
             S \cup UNION {{ChildrenOf(D, p)[k] : k \in 1..Len(ChildrenOf(D, p))} : p \in S},
             fuel - 1)

\* One root, a directory without sibling and in no child list.
OneRoot(D) ==
    /\ D.root = 1
    /\ D.ent[D.root].isdir
    /\ D.ent[D.root].sibling = 0
    /\ ParentsOf(D, D.root) = {}
    /\ \A b \in 0..(hashBuckets - 1) : Occurrences(Bucket(D, b), D.root) = 0

\* The entry is reached from the root, is once in one child list, that of a
\* directory, and once in the bucket of its name and in no other.
WellLinked(D, e, reached) ==
    LET hashval == hashPathName(D.ent[e].name)
    IN  /\ e \in reached
        /\ \E p \in 1..D.n :
              /\ ParentsOf(D, e) = {p}
              /\ D.ent[p].isdir
              /\ Occurrences(ChildrenOf(D, p), e) = 1
        /\ \A b \in 0..(hashBuckets - 1) :
              Occurrences(Bucket(D, b), e) = IF b = hashval THEN 1 ELSE 0

TreeWellFormed(D) ==
    D.root # 0 =>
        LET reached == Descendants(D, {D.root}, MaxEnt)
        IN  OneRoot(D) /\ \A e \in 2..D.n : WellLinked(D, e, reached)

\* A lookup reorders one bucket and nothing else.
FindStep ==
    dtret'.op \in {"find", "enumerate"} =>
        /\ dt'.n = dt.n
        /\ LET hashval == hashPathName(dtret'.name)
           IN  \A b \in 0..(hashBuckets - 1) :
                  LET was == Bucket(dt, b)
                      is == Bucket(dt', b)
                  IN  /\ {is[k] : k \in 1..Len(is)} = {was[k] : k \in 1..Len(was)}
                      /\ Len(is) = Len(was)
                      /\ b # hashval => is = was
        /\ \A e \in 1..dt.n :
              /\ dt'.ent[e].children = dt.ent[e].children
              /\ dt'.ent[e].sibling = dt.ent[e].sibling
              /\ dt'.ent[e].name = dt.ent[e].name
              /\ dt'.ent[e].isdir = dt.ent[e].isdir
        /\ \A dname \in { <<>>, <<"a">>, <<"a", "/", "a">>, <<"d">> } :
              DirTreeEnumerate(dt', dname).passed = DirTreeEnumerate(dt, dname).passed

\* C40: after any sequence of add and find there is one root (a directory
\* without sibling); every other entry is reached from the root through
\* children and sibling links, has a directory for parent and is exactly once
\* in the bucket hash(name) % hashBuckets; a find reorders the entries of one
\* bucket only and changes no bucket's members, no children list and not the
\* order in which enumerate reports a directory's children.
C40_TreeWellFormed == [](TreeWellFormed(dt)) /\ [][FindStep]_vars

\* A find has moved an entry in front of one added after it, in a tree with
\* a three-deep chain and a second child of the root.
C40_Witness ==
    /\ dtret.op = "find"
    /\ dtret.res # 0
    /\ dt.hash[hashPathName(dtret.name)] = dtret.res
    /\ dt.ent[dtret.res].hashnext > dtret.res
    /\ dt.n = MaxEnt

=============================================================================
